---- MODULE Spec2Model ----
(***************************************************************************)
(* Verification model of the surveillance pipeline:                        *)
(*   - TrackCalculator / TrackIntegrator (track_calculator.py,             *)
(*     track_integrator.py): plot-to-track association and track lifecycle *)
(*   - the Flask integration threads (track_flask_integration.py)          *)
(*   - AsterixConsolidatedProcessor (asterix_cat48_consolidated.py)        *)
(*                                                                         *)
(* Floating point numerics (Kalman filter, gates, course scores) are not   *)
(* representable; the scores they produce for a plot are inputs of the     *)
(* model, drawn from ScoreVals for every track.  Everything that is done   *)
(* with the scores (candidate lists, sorting, thresholds, counters, state  *)
(* changes, dictionary moves) follows the code.                            *)
(***************************************************************************)
EXTENDS Integers, Sequences, FiniteSets, TLC

VARIABLES
    \* ---- TrackIntegrator / TrackCalculator ----
    active_tracks,       \* TrackCalculator.active_tracks (dict, insertion order)
    terminated_tracks,   \* TrackCalculator.terminated_tracks (dict, insertion order)
    stats,               \* TrackCalculator.stats
    config,              \* thresholds read by TrackCalculator.__init__
    \* ---- history variables of the tracker ----
    plots_fed,           \* number of plots handed to process_plot_batch so far
    issued_ids,          \* track_id of every track ever created, in creation order
    last_updated,        \* updated_tracks of the last completed batch
    \* ---- Flask integration threads ----
    thr,                 \* per thread: program position and locals
    reader,              \* reader thread (get_tracks_for_display / get_track_summary)
    committed,           \* active_tracks as left by the last completed mutation
    \* ---- AsterixConsolidatedProcessor ----
    raw_data,            \* payload handed to process_asterix_message
    targets,             \* its return value (or Pending)
    processing_stats,    \* AsterixConsolidatedProcessor.processing_stats
    \* ---- FSPEC functions ----
    fspec_in,            \* [data, cat] argument of _extract_fspec / mapping selector
    fspec_out,           \* [fspec, position, items] result, empty until computed
    \* ---- message builders ----
    source_target,       \* target handed to create_catNN_message / built by the tests
    \* ---- KLVConverter ----
    klv,                 \* [track, timestamp, packet, altered, parsed, valid]
    \* ---- CoTConverter / CoTProcessor ----
    cot,                 \* [track, doc, valid, processor_valid, parsed], or
                         \* [clock, emitted, event] for the times of events
    \* ---- two TrackCalculator instances fed the same batches ----
    pair,                \* [a, b, log_a, log_b, fed, config]
    \* ---- straight-line scenario of the tracker tests ----
    s3,                  \* [T, log, fed]
    \* ---- UDPAsterixReceiver ----
    udp,                 \* [running, socket, created, closed, callers, loops, ...]
    \* ---- one plot against tracks with given gate verdicts ----
    gate,                \* [T, tracks, use_azimuth_correlation, verdicts, decided, candidates,
                         \*  associated]; tracks is active_tracks before the plot
    \* ---- one TrackData with the fields the batch model leaves out ----
    td                   \* [track, ...]: sensor fusion, Kalman state, histories, kinematics

vars == << active_tracks, terminated_tracks, stats, config, plots_fed, issued_ids,
           last_updated, thr, reader, committed, raw_data, targets,
           processing_stats, fspec_in, fspec_out, source_target,
           klv, cot, pair, s3, udp, gate, td >>

trackerVars == << active_tracks, terminated_tracks, stats, config, plots_fed,
                  issued_ids, last_updated >>

threadVars == << thr, reader, committed >>

decoderVars == << raw_data, targets, processing_stats >>

fspecVars == << fspec_in, fspec_out >>

laterVars == << pair, s3, udp, gate, td >>

otherVars == << source_target, klv, cot, pair, s3, udp, gate, td >>

----------------------------------------------------------------------------
(* Bounds of the model *)

MaxPlots == 4

MaxBatch == 2

MaxThreadPlots == 2

MaxBody == 5

MaxLenField == 9

MaxFspecData == 5

KlvFlippedBits == {0, 7}

MaxConf == 2

MaxCoast == 2

MaxTerm == 3

(* plots of the straight-line scenario that are fed *)
MaxLinePlots == 13

(* calls of start() and stop() on one receiver *)
MaxCalls == 3

(* datagrams that arrive *)
MaxDatagrams == 2

(* clock readings, in microseconds since the first event is built *)
MaxClock == 4

(* events built in one behaviour *)
MaxEvents == 2

(* tracks a plot is compared with *)
MaxGateTracks == 2

(* Program constants *)

TentativeMissLimit == 7

FspecMaxBytes == 4

MatureCourseLen == 3

CourseHistoryMax == 20

(* scores in hundredths: 0.40 and 0.20 are the two association thresholds *)
MatureThreshold == 40

NewThreshold == 20

ScoreVals == {10, 20, 40}

NoCand == -1

TimeVals == {0, 1}

(* speed_ms after _calculate_kinematics, relative to min_speed_threshold and
   max_speed_threshold: below the minimum, between the two, above the maximum *)
SpeedVals == {"slow", "cruise"}

Pending == "pending"

----------------------------------------------------------------------------
(* Generic helpers *)

Range(s) == { s[i] : i \in 1..Len(s) }

RECURSIVE SeqSum(_)
SeqSum(s) == IF s = << >> THEN 0 ELSE Head(s) + SeqSum(Tail(s))

(* Python dict semantics over an insertion-ordered sequence of records that
   carry their key in field track_id *)
DictHas(d, key) == \E i \in 1..Len(d) : d[i].track_id = key

DictPut(d, key, val) ==
    IF DictHas(d, key)
    THEN [ i \in 1..Len(d) |-> IF d[i].track_id = key THEN val ELSE d[i] ]
    ELSE Append(d, val)

DictPop(d, key) == SelectSeq(d, LAMBDA t : t.track_id # key)

DictGet(d, key) == d[CHOOSE i \in 1..Len(d) : d[i].track_id = key]

Keys(d) == { d[i].track_id : i \in 1..Len(d) }

----------------------------------------------------------------------------
(* TrackCalculator *)

Configs == [ track_confirmation_threshold : 1..MaxConf,
             coasting_threshold : 1..MaxCoast,
             track_termination_threshold : 1..MaxTerm ]

ZeroStats == [ total_plots_processed |-> 0, tracks_initiated |-> 0,
               tracks_confirmed |-> 0, tracks_terminated |-> 0 ]

(* The tracker value threaded through the steps of a batch:
   T.active_tracks, T.terminated_tracks, T.stats, T.issued (history) *)
Tracker(a, t, s, iss) ==
    [ active_tracks |-> a, terminated_tracks |-> t, stats |-> s, issued |-> iss ]

(* plots.sort(key=lambda p: p.timestamp): stable insertion sort *)
RECURSIVE InsertByTime(_, _)
InsertByTime(sorted, p) ==
    IF sorted = << >> THEN << p >>
    ELSE IF Head(sorted).timestamp <= p.timestamp
         THEN << Head(sorted) >> \o InsertByTime(Tail(sorted), p)
         ELSE << p >> \o sorted

RECURSIVE SortByTimestamp(_)
SortByTimestamp(plots) ==
    IF plots = << >> THEN << >>
    ELSE InsertByTime(SortByTimestamp(SubSeq(plots, 1, Len(plots) - 1)),
                      plots[Len(plots)])

(* candidates.sort(key=lambda x: x[1], reverse=True): stable, descending.
   A candidate is <<index in active_tracks, score>> *)
RECURSIVE InsertByScore(_, _)
InsertByScore(sorted, c) ==
    IF sorted = << >> THEN << c >>
    ELSE IF Head(sorted)[2] >= c[2]
         THEN << Head(sorted) >> \o InsertByScore(Tail(sorted), c)
         ELSE << c >> \o sorted

RECURSIVE SortByScoreDesc(_)
SortByScoreDesc(cands) ==
    IF cands = << >> THEN << >>
    ELSE InsertByScore(SortByScoreDesc(SubSeq(cands, 1, Len(cands) - 1)),
                       cands[Len(cands)])

(* candidate list of one scoring pass: every non-terminated track the
   numerics let through its gate, in dictionary order, with its score *)
RECURSIVE GatedCandidates(_, _, _)
GatedCandidates(tracks, scores, i) ==
    IF i > Len(tracks) THEN << >>
    ELSE IF tracks[i].state # "terminated" /\ scores[i] # NoCand
         THEN << << i, scores[i] >> >> \o GatedCandidates(tracks, scores, i + 1)
         ELSE GatedCandidates(tracks, scores, i + 1)

find_course_association_candidates(T, num) ==
    SortByScoreDesc(GatedCandidates(T.active_tracks, num.course, 1))

find_azimuth_association_candidates(T, num) ==
    GatedCandidates(T.active_tracks, num.fallback, 1)

(* len(course_history) >= 3 and quality_score > 0.7 (quality in hundredths) *)
IsMature(track) ==
    track.course_len >= MatureCourseLen /\ track.quality_score > 70

(* variant: the first candidate, in descending order of score, that reaches
   its own threshold *)
select_best_course_association_AnyPassing(T, candidates) ==
    LET sorted == SortByScoreDesc(candidates)
        passing == SelectSeq(sorted, LAMBDA c :
                      c[2] >= (IF IsMature(T.active_tracks[c[1]])
                               THEN MatureThreshold ELSE NewThreshold))
    IN IF passing = << >> THEN 0 ELSE passing[1][1]

select_best_course_association(T, candidates) ==
    IF candidates = << >> THEN 0
    ELSE LET sorted == SortByScoreDesc(candidates)
             best   == sorted[1]
             track  == T.active_tracks[best[1]]
             threshold == IF IsMature(track) THEN MatureThreshold ELSE NewThreshold
         IN IF best[2] >= threshold THEN best[1] ELSE 0

(* _update_course_modeling: one (course, timestamp) entry is appended when
   speed_ms > min_speed_threshold; at most CourseHistoryMax entries are kept *)
update_course_modeling(track, num) ==
    IF num.speed = "slow" THEN track
    ELSE [ track EXCEPT !.course_len =
             IF @ + 1 > CourseHistoryMax THEN CourseHistoryMax ELSE @ + 1 ]

(* _update_track_quality in hundredths: plot_quality * consistency_quality *
   speed_quality, floored at 0.1 *)
update_track_quality(track, num) ==
    LET plot_quality == IF track.plot_count * 10 > 100 THEN 100
                        ELSE track.plot_count * 10
        consistency  == IF track.consecutive_misses >= 10 THEN 0
                        ELSE 10 - track.consecutive_misses
        speed_quality == IF num.speed = "fast" THEN 5
                         ELSE IF num.speed = "slow" /\ track.plot_count > 3 THEN 7
                         ELSE 10
        q == (plot_quality * consistency * speed_quality) \div 100
    IN [ track EXCEPT !.quality_score = IF q < 10 THEN 10 ELSE q ]

(* variant: an associated Coasting track is Confirmed again *)
associate_plot_to_track_Reconfirm(T, plot, i, num) ==
    LET tr == T.active_tracks[i]
        t1 == [ tr EXCEPT !.plot_count = @ + 1,
                          !.consecutive_misses = 0,
                          !.state = IF @ = "coasting" THEN "confirmed" ELSE @,
                          !.associated_plots = Append(@, plot.plot_id) ]
        t2 == update_course_modeling(t1, num)
        t3 == update_track_quality(t2, num)
        t4 == update_course_modeling(t3, num)
    IN [ T EXCEPT !.active_tracks[i] = t4 ]

associate_plot_to_track(T, plot, i, num) ==
    LET tr == T.active_tracks[i]
        t1 == [ tr EXCEPT !.plot_count = @ + 1,
                          !.consecutive_misses = 0,
                          !.associated_plots = Append(@, plot.plot_id) ]
        t2 == update_course_modeling(t1, num)
        t3 == update_track_quality(t2, num)
        t4 == update_course_modeling(t3, num)
    IN [ T EXCEPT !.active_tracks[i] = t4 ]

NewTrack(track_id, plot) ==
    [ track_id |-> track_id, state |-> "tentative", plot_count |-> 1,
      consecutive_misses |-> 0, associated_plots |-> << plot.plot_id >>,
      course_len |-> 0, quality_score |-> 0, k |-> 0 ]

initiate_new_track(T, plot) ==
    LET track_id == Len(T.active_tracks) + Len(T.terminated_tracks) + 1
    IN [ T EXCEPT !.active_tracks = DictPut(@, track_id, NewTrack(track_id, plot)),
                  !.stats.tracks_initiated = @ + 1,
                  !.issued = Append(@, track_id) ]

(* variant: a plot whose best candidate scores below the threshold is dropped *)
process_single_plot_DropWeak(T, plot, num) ==
    LET course == find_course_association_candidates(T, num)
        candidates == IF course = << >>
                      THEN find_azimuth_association_candidates(T, num)
                      ELSE course
    IN IF candidates = << >>
       THEN [ T |-> initiate_new_track(T, plot), assoc |-> 0 ]
       ELSE LET best == select_best_course_association(T, candidates)
            IN IF best # 0
               THEN [ T |-> associate_plot_to_track(T, plot, best, num),
                      assoc |-> T.active_tracks[best].track_id ]
               ELSE [ T |-> T, assoc |-> 0 ]

(* variant: a newly initiated track is returned as the associated track *)
process_single_plot_ReturnNew(T, plot, num) ==
    LET course == find_course_association_candidates(T, num)
        candidates == IF course = << >>
                      THEN find_azimuth_association_candidates(T, num)
                      ELSE course
        new_id == Len(T.active_tracks) + Len(T.terminated_tracks) + 1
    IN IF candidates = << >>
       THEN [ T |-> initiate_new_track(T, plot), assoc |-> new_id ]
       ELSE LET best == select_best_course_association(T, candidates)
            IN IF best # 0
               THEN [ T |-> associate_plot_to_track(T, plot, best, num),
                      assoc |-> T.active_tracks[best].track_id ]
               ELSE [ T |-> initiate_new_track(T, plot), assoc |-> new_id ]

(* _process_single_plot: result is [T, assoc] where assoc is the track_id of
   the associated track, or 0 for None (a new track was initiated) *)
process_single_plot(T, plot, num) ==
    LET course == find_course_association_candidates(T, num)
        candidates == IF course = << >>
                      THEN find_azimuth_association_candidates(T, num)
                      ELSE course
    IN IF candidates = << >>
       THEN [ T |-> initiate_new_track(T, plot), assoc |-> 0 ]
       ELSE LET best == select_best_course_association(T, candidates)
            IN IF best # 0
               THEN [ T |-> associate_plot_to_track(T, plot, best, num),
                      assoc |-> T.active_tracks[best].track_id ]
               ELSE [ T |-> initiate_new_track(T, plot), assoc |-> 0 ]

(* variant: every track is aged, updated or not *)
age_unassociated_tracks_AgeAll(T, updated_tracks) ==
    [ T EXCEPT !.active_tracks =
        [ i \in 1..Len(@) |->
            IF @[i].state = "terminated" THEN @[i]
            ELSE [ @[i] EXCEPT !.consecutive_misses = @ + 1 ] ] ]

age_unassociated_tracks(T, updated_tracks) ==
    [ T EXCEPT !.active_tracks =
        [ i \in 1..Len(@) |->
            IF @[i].state = "terminated" THEN @[i]
            ELSE IF @[i].track_id \notin updated_tracks
                 THEN [ @[i] EXCEPT !.consecutive_misses = @ + 1 ]
                 ELSE @[i] ] ]

(* variant: coasting only once the misses exceed the threshold *)
UpdateOneState_LateCoast(track, cfg) ==
    IF track.state = "terminated" THEN track
    ELSE LET c1 == IF track.state = "tentative"
                      /\ track.plot_count >= cfg.track_confirmation_threshold
                   THEN [ track EXCEPT !.state = "confirmed" ]
                   ELSE track
         IN IF c1.consecutive_misses > cfg.coasting_threshold
               /\ c1.state = "confirmed"
            THEN [ c1 EXCEPT !.state = "coasting" ]
            ELSE c1

(* variant: confirmation only once plot_count exceeds the threshold *)
UpdateOneState_LateConfirm(track, cfg) ==
    IF track.state = "terminated" THEN track
    ELSE LET c1 == IF track.state = "tentative"
                      /\ track.plot_count > cfg.track_confirmation_threshold
                   THEN [ track EXCEPT !.state = "confirmed" ]
                   ELSE track
         IN IF c1.consecutive_misses >= cfg.coasting_threshold
               /\ c1.state = "confirmed"
            THEN [ c1 EXCEPT !.state = "coasting" ]
            ELSE c1

UpdateOneState(track, cfg) ==
    IF track.state = "terminated" THEN track
    ELSE LET c1 == IF track.state = "tentative"
                      /\ track.plot_count >= cfg.track_confirmation_threshold
                   THEN [ track EXCEPT !.state = "confirmed" ]
                   ELSE track
         IN IF c1.consecutive_misses >= cfg.coasting_threshold
               /\ c1.state = "confirmed"
            THEN [ c1 EXCEPT !.state = "coasting" ]
            ELSE c1

(* variant: every active track with enough plots counts as a confirmation *)
update_track_states_CountAll(T, cfg) ==
    LET old == T.active_tracks
        confirmedNow == { i \in 1..Len(old) :
                            old[i].plot_count >= cfg.track_confirmation_threshold }
    IN [ T EXCEPT !.active_tracks = [ i \in 1..Len(old) |-> UpdateOneState(old[i], cfg) ],
                  !.stats.tracks_confirmed = @ + Cardinality(confirmedNow) ]

update_track_states(T, cfg) ==
    LET old == T.active_tracks
        confirmedNow == { i \in 1..Len(old) :
                            old[i].state = "tentative"
                            /\ old[i].plot_count >= cfg.track_confirmation_threshold }
    IN [ T EXCEPT !.active_tracks = [ i \in 1..Len(old) |-> UpdateOneState(old[i], cfg) ],
                  !.stats.tracks_confirmed = @ + Cardinality(confirmedNow) ]

(* variant: termination two scans late *)
ShouldTerminate_Late(track, cfg) ==
    \/ track.consecutive_misses > cfg.track_termination_threshold + 1
    \/ /\ track.state = "tentative"
       /\ track.plot_count < cfg.track_confirmation_threshold
       /\ track.consecutive_misses >= TentativeMissLimit

(* variant: only the termination threshold ends a track *)
ShouldTerminate_ThresholdOnly(track, cfg) ==
    track.consecutive_misses >= cfg.track_termination_threshold

ShouldTerminate(track, cfg) ==
    \/ track.consecutive_misses >= cfg.track_termination_threshold
    \/ /\ track.state = "tentative"
       /\ track.plot_count < cfg.track_confirmation_threshold
       /\ track.consecutive_misses >= TentativeMissLimit

RECURSIVE TerminateAll(_, _)
TerminateAll(T, ids) ==
    IF ids = << >> THEN T
    ELSE LET track_id == Head(ids)
             track == [ DictGet(T.active_tracks, track_id) EXCEPT !.state = "terminated" ]
         IN TerminateAll(
              [ T EXCEPT !.active_tracks = DictPop(@, track_id),
                         !.terminated_tracks = DictPut(@, track_id, track),
                         !.stats.tracks_terminated = @ + 1 ],
              Tail(ids))

perform_track_maintenance(T, cfg) ==
    LET sel == SelectSeq(T.active_tracks, LAMBDA t : ShouldTerminate(t, cfg))
        tracks_to_terminate == [ i \in 1..Len(sel) |-> sel[i].track_id ]
    IN TerminateAll(T, tracks_to_terminate)

(* The numerics' verdicts for one plot against the tracks active when the
   plot is processed: a score (or NoCand) per track from the course pass and
   from the fallback pass, and the speed class after the update.  The
   fallback pass only runs when the course pass yields no candidate. *)
ScoreMaps(n) == [ 1..n -> ScoreVals \cup {NoCand} ]

NoScores(n) == [ i \in 1..n |-> NoCand ]

Numerics(T) ==
    LET n == Len(T.active_tracks)
    IN { [ course |-> c, fallback |-> NoScores(n), speed |-> s ] :
            c \in ScoreMaps(n) \ {NoScores(n)}, s \in SpeedVals }
       \cup
       { [ course |-> NoScores(n), fallback |-> f, speed |-> "cruise" ] :
            f \in ScoreMaps(n) }

(* the for-loop of process_plot_batch; yields every [T, updated_tracks] the
   loop can end in *)
RECURSIVE ProcessPlots(_, _, _)
ProcessPlots(T, plots, updated_tracks) ==
    IF plots = << >> THEN { [ T |-> T, updated_tracks |-> updated_tracks ] }
    ELSE UNION { LET r == process_single_plot(T, Head(plots), num)
                 IN ProcessPlots(r.T, Tail(plots),
                                 IF r.assoc # 0 THEN updated_tracks \cup {r.assoc}
                                 ELSE updated_tracks)
                 : num \in Numerics(T) }

(* history: k counts, per track, the consecutive completed batches in which
   no plot was associated with the track by _associate_plot_to_track *)
CountMissedBatches(T, updated_tracks, oldTerminated) ==
    LET upd(t) == [ t EXCEPT !.k = IF t.track_id \in updated_tracks THEN 0 ELSE @ + 1 ]
    IN [ T EXCEPT
           !.active_tracks = [ i \in 1..Len(@) |-> upd(@[i]) ],
           !.terminated_tracks =
               [ i \in 1..Len(@) |->
                   IF @[i].track_id \in oldTerminated THEN @[i] ELSE upd(@[i]) ] ]

(* process_plot_batch after the sort: plot loop, ageing, state update,
   maintenance, statistics *)
BatchResults(T, sorted, cfg) ==
    { LET aged == age_unassociated_tracks(r.T, r.updated_tracks)
          upd  == update_track_states(aged, cfg)
          done == perform_track_maintenance(upd, cfg)
          fin  == [ done EXCEPT !.stats.total_plots_processed = @ + Len(sorted) ]
      IN [ T |-> CountMissedBatches(fin, r.updated_tracks, Keys(T.terminated_tracks)),
           updated_tracks |-> r.updated_tracks ]
      : r \in ProcessPlots(T, sorted, {}) }

PlotBatches(first, n) ==
    { [ i \in 1..n |-> [ plot_id |-> first + i, timestamp |-> ts[i] ] ] :
        ts \in [ 1..n -> TimeVals ] }

CurrentTracker == Tracker(active_tracks, terminated_tracks, stats, issued_ids)

ProcessPlotBatch ==
    \E n \in 0..MaxBatch :
      /\ plots_fed + n <= MaxPlots
      /\ \E plots \in PlotBatches(plots_fed, n) :
           \E r \in BatchResults(CurrentTracker, SortByTimestamp(plots), config) :
              /\ active_tracks' = r.T.active_tracks
              /\ terminated_tracks' = r.T.terminated_tracks
              /\ stats' = r.T.stats
              /\ issued_ids' = r.T.issued
              /\ last_updated' = r.updated_tracks
              /\ plots_fed' = plots_fed + n
      /\ UNCHANGED << config, threadVars, decoderVars, fspecVars, otherVars >>

(* TrackIntegrator.reset_tracking *)
ResetTracking ==
    /\ active_tracks' = << >>
    /\ terminated_tracks' = << >>
    /\ last_updated' = {}
    /\ UNCHANGED << stats, config, plots_fed, issued_ids,
                    threadVars, decoderVars, fspecVars, otherVars >>

(* TrackIntegrator.configure_tracker: a new TrackCalculator *)
ConfigureTracker ==
    \E c \in Configs :
      /\ config' = c
      /\ active_tracks' = << >>
      /\ terminated_tracks' = << >>
      /\ stats' = ZeroStats
      /\ last_updated' = {}
      /\ UNCHANGED << plots_fed, issued_ids, threadVars, decoderVars, fspecVars, otherVars >>

IdleThreads ==
    /\ thr = << >>
    /\ reader = << >>
    /\ committed = << >>

IdleDecoder ==
    /\ raw_data = << >>
    /\ targets = Pending
    /\ processing_stats = [ total_messages |-> 0, messages_by_category |-> << >>,
                          processing_errors |-> 0 ]

IdleFspec ==
    /\ fspec_in = << >>
    /\ fspec_out = << >>

IdleLater ==
    /\ pair = << >>
    /\ s3 = << >>
    /\ udp = << >>
    /\ gate = << >>
    /\ td = << >>

IdleOthers ==
    /\ source_target = << >>
    /\ klv = << >>
    /\ cot = << >>
    /\ IdleLater

InitTracker ==
    /\ active_tracks = << >>
    /\ terminated_tracks = << >>
    /\ stats = ZeroStats
    /\ config \in Configs
    /\ plots_fed = 0
    /\ issued_ids = << >>
    /\ last_updated = {}
    /\ IdleThreads
    /\ IdleDecoder
    /\ IdleFspec
    /\ IdleOthers

NextTracker == ProcessPlotBatch

SpecTracker == InitTracker /\ [][NextTracker]_vars

NextIntegrator == ProcessPlotBatch \/ ResetTracking \/ ConfigureTracker

SpecIntegrator == InitTracker /\ [][NextIntegrator]_vars

----------------------------------------------------------------------------
(* Flask integration: the background worker thread and the request threads
   share one TrackIntegrator; no lock is taken anywhere
   (track_flask_integration.py, track_integrator.py).  A thread is preempted
   between any two statements; the steps below are the calls made by
   process_plot_batch, each taken as one step. *)

Mutators == {"worker", "post"}

IdleThread == [ pc |-> "idle", plots |-> << >>, updated_tracks |-> {} ]

IdleReader == [ pc |-> "idle", n0 |-> 0, failed |-> FALSE, intermediate |-> FALSE ]

StoreTracker(T) ==
    /\ active_tracks' = T.active_tracks
    /\ terminated_tracks' = T.terminated_tracks
    /\ stats' = T.stats
    /\ issued_ids' = T.issued

(* process_new_data up to the call of process_plot_batch: new events exist,
   they are converted to plots and sorted *)
ThreadBegin(t) ==
    /\ thr[t].pc = "idle"
    /\ \E n \in 1..MaxBatch :
         /\ plots_fed + n <= MaxThreadPlots
         /\ \E plots \in PlotBatches(plots_fed, n) :
              thr' = [ thr EXCEPT ![t] = [ pc |-> "plots",
                                           plots |-> SortByTimestamp(plots),
                                           updated_tracks |-> {} ] ]
         /\ plots_fed' = plots_fed + n
    /\ UNCHANGED << active_tracks, terminated_tracks, stats, config, issued_ids,
                    last_updated, reader, committed, decoderVars, fspecVars, otherVars >>

(* one iteration of the plot loop *)
ThreadPlot(t) ==
    /\ thr[t].pc = "plots"
    /\ thr[t].plots # << >>
    /\ \E num \in Numerics(CurrentTracker) :
         LET r == process_single_plot(CurrentTracker, Head(thr[t].plots), num)
         IN /\ StoreTracker(r.T)
            /\ thr' = [ thr EXCEPT ![t].plots = Tail(@),
                                   ![t].updated_tracks =
                                       IF r.assoc # 0 THEN @ \cup {r.assoc} ELSE @ ]
    /\ UNCHANGED << config, plots_fed, last_updated, reader, committed,
                    decoderVars, fspecVars, otherVars >>

ThreadAge(t) ==
    /\ thr[t].pc = "plots"
    /\ thr[t].plots = << >>
    /\ StoreTracker(age_unassociated_tracks(CurrentTracker, thr[t].updated_tracks))
    /\ thr' = [ thr EXCEPT ![t].pc = "states" ]
    /\ UNCHANGED << config, plots_fed, last_updated, reader, committed,
                    decoderVars, fspecVars, otherVars >>

ThreadStates(t) ==
    /\ thr[t].pc = "states"
    /\ StoreTracker(update_track_states(CurrentTracker, config))
    /\ thr' = [ thr EXCEPT ![t].pc = "maintenance" ]
    /\ UNCHANGED << config, plots_fed, last_updated, reader, committed,
                    decoderVars, fspecVars, otherVars >>

(* _perform_track_maintenance and the return of process_plot_batch *)
ThreadMaintain(t) ==
    /\ thr[t].pc = "maintenance"
    /\ LET done == perform_track_maintenance(CurrentTracker, config)
           fin  == CountMissedBatches(done, thr[t].updated_tracks,
                                      Keys(terminated_tracks))
       IN /\ StoreTracker(fin)
          /\ committed' = fin.active_tracks
    /\ last_updated' = thr[t].updated_tracks
    /\ thr' = [ thr EXCEPT ![t] = IdleThread ]
    /\ UNCHANGED << config, plots_fed, reader, decoderVars, fspecVars, otherVars >>

(* POST /api/tracks/reset: reset_tracking, first statement *)
ResetClearActive ==
    /\ thr["reset"].pc = "idle"
    /\ active_tracks' = << >>
    /\ thr' = [ thr EXCEPT !["reset"].pc = "clear_terminated" ]
    /\ UNCHANGED << terminated_tracks, stats, config, plots_fed, issued_ids,
                    last_updated, reader, committed, decoderVars, fspecVars, otherVars >>

(* reset_tracking, second statement *)
ResetClearTerminated ==
    /\ thr["reset"].pc = "clear_terminated"
    /\ terminated_tracks' = << >>
    /\ committed' = active_tracks
    /\ thr' = [ thr EXCEPT !["reset"].pc = "idle" ]
    /\ UNCHANGED << active_tracks, stats, config, plots_fed, issued_ids,
                    last_updated, reader, decoderVars, fspecVars, otherVars >>

(* GET /api/tracks/current or /api/tracks/statistics: the loop over
   active_tracks.values() creates a dict iterator *)
ReaderBegin ==
    /\ reader.pc = "idle"
    /\ ~reader.failed
    /\ reader' = [ reader EXCEPT !.pc = "iterating", !.n0 = Len(active_tracks) ]
    /\ UNCHANGED << trackerVars, thr, committed, decoderVars, fspecVars, otherVars >>

(* the iterator is advanced: it raises RuntimeError when the dict changed
   size since it was created; otherwise the reader sees the current map *)
ReaderIterate ==
    /\ reader.pc = "iterating"
    /\ reader' = [ reader EXCEPT
                     !.pc = "idle",
                     !.failed = (Len(active_tracks) # reader.n0),
                     !.intermediate = (active_tracks # committed) ]
    /\ UNCHANGED << trackerVars, thr, committed, decoderVars, fspecVars, otherVars >>

(* the thresholds do not change the interleavings; one configuration with
   confirmation after two plots and coasting before termination *)
ThreadConfig == [ track_confirmation_threshold |-> 2, coasting_threshold |-> 1,
                  track_termination_threshold |-> 2 ]

InitThreads ==
    /\ active_tracks = << >>
    /\ terminated_tracks = << >>
    /\ stats = ZeroStats
    /\ config = ThreadConfig
    /\ plots_fed = 0
    /\ issued_ids = << >>
    /\ last_updated = {}
    /\ thr = [ t \in Mutators \cup {"reset"} |-> IdleThread ]
    /\ reader = IdleReader
    /\ committed = << >>
    /\ IdleDecoder
    /\ IdleFspec
    /\ IdleOthers

NextThreads ==
    \/ \E t \in Mutators : ThreadBegin(t)
    \/ \E t \in Mutators : ThreadPlot(t)
    \/ \E t \in Mutators : ThreadAge(t)
    \/ \E t \in Mutators : ThreadStates(t)
    \/ \E t \in Mutators : ThreadMaintain(t)
    \/ ResetClearActive
    \/ ResetClearTerminated
    \/ ReaderBegin
    \/ ReaderIterate

SpecThreads == InitThreads /\ [][NextThreads]_vars

----------------------------------------------------------------------------
(* AsterixConsolidatedProcessor.  A payload is a sequence of bytes 0..255;
   positions are 0-based as in the code, raw[position] is payload[position+1] *)

cat10_fspec_mapping ==
    << << "I010/010", "I010/020", "I010/040", "I010/041", "I010/042", "I010/200", "I010/202" >>,
       << "I010/161", "I010/170", "I010/060", "I010/220", "I010/245", "I010/250", "I010/300" >>,
       << "I010/090", "I010/091", "I010/270", "I010/550", "I010/310", "I010/500", "I010/280" >>,
       << "I010/131", "I010/210", "I010/140", "I010/RE", "I010/SP", "", "" >> >>

cat21_fspec_mapping ==
    << << "I021/010", "I021/040", "I021/030", "I021/130", "I021/080", "I021/140", "I021/090" >>,
       << "I021/210", "I021/230", "I021/145", "I021/150", "I021/151", "I021/152", "I021/155" >>,
       << "I021/157", "I021/160", "I021/165", "I021/170", "I021/095", "I021/032", "I021/200" >>,
       << "I021/020", "I021/220", "I021/146", "I021/148", "I021/110", "I021/016", "I021/008" >> >>

cat48_fspec_mapping ==
    << << "I048/010", "I048/140", "I048/020", "I048/040", "I048/070", "I048/090", "I048/130" >>,
       << "I048/220", "I048/240", "I048/250", "I048/161", "I048/042", "I048/200", "I048/170" >>,
       << "I048/210", "I048/030", "I048/080", "I048/100", "I048/110", "I048/120", "I048/230" >>,
       << "I048/260", "I048/055", "I048/050", "I048/065", "I048/060", "I048/SP", "I048/RE" >> >>

supported_categories == {10, 21, 48}

MappingOf(cat) ==
    IF cat = 10 THEN cat10_fspec_mapping
    ELSE IF cat = 21 THEN cat21_fspec_mapping
    ELSE cat48_fspec_mapping

(* byte & (1 << k) != 0 *)
BitSet(byte, k) == (byte \div (2 ^ k)) % 2 = 1

Slice(data, from) == SubSeq(data, from + 1, Len(data))

(* variant: the loop runs five times *)
ExtractDone_FiveBytes(data, i, position) ==
    i >= FspecMaxBytes + 1 \/ position >= Len(data)

(* for i in range(4): if position >= len(data): break *)
ExtractDone(data, i, position) ==
    i >= FspecMaxBytes \/ position >= Len(data)

(* the for-loop of _extract_fspec *)
RECURSIVE ExtractLoop(_, _, _, _)
ExtractLoop(data, i, fspec, position) ==
    IF ExtractDone(data, i, position)
    THEN [ fspec |-> fspec, position |-> position ]
    ELSE LET byte == data[position + 1]
         IN IF ~BitSet(byte, 0)
            THEN [ fspec |-> Append(fspec, byte), position |-> position + 1 ]
            ELSE ExtractLoop(data, i + 1, Append(fspec, byte), position + 1)

extract_fspec(data) == ExtractLoop(data, 0, << >>, 0)

(* inner loop of _decode_fspec over bit_idx = 0..6 *)
RECURSIVE DecodeBits(_, _, _)
DecodeBits(octet, row, bit_idx) ==
    IF bit_idx >= 7 THEN << >>
    ELSE IF BitSet(octet, 7 - bit_idx) /\ bit_idx < Len(row) /\ row[bit_idx + 1] # ""
         THEN << row[bit_idx + 1] >> \o DecodeBits(octet, row, bit_idx + 1)
         ELSE DecodeBits(octet, row, bit_idx + 1)

(* outer loop of _decode_fspec over the FSPEC octets *)
RECURSIVE DecodeOctets(_, _, _)
DecodeOctets(fspec, mapping, octet_idx) ==
    IF octet_idx >= Len(fspec) \/ octet_idx >= Len(mapping) THEN << >>
    ELSE DecodeBits(fspec[octet_idx + 1], mapping[octet_idx + 1], 0)
         \o DecodeOctets(fspec, mapping, octet_idx + 1)

decode_fspec(fspec, mapping) == DecodeOctets(fspec, mapping, 0)

(* _get_variable_length *)
RECURSIVE get_variable_length_from(_, _)
get_variable_length_from(data, i) ==
    IF i >= Len(data) THEN i
    ELSE IF ~BitSet(data[i + 1], 0) \/ i >= 10 THEN i + 1
    ELSE get_variable_length_from(data, i + 1)

get_variable_length(data) == get_variable_length_from(data, 0)

Min(a, b) == IF a < b THEN a ELSE b

Short == [ ok |-> FALSE, length |-> 0 ]

Fixed(data, n) == IF Len(data) < n THEN Short ELSE [ ok |-> TRUE, length |-> n ]

Variable(data) ==
    IF Len(data) < 1 THEN Short ELSE [ ok |-> TRUE, length |-> get_variable_length(data) ]

Other(data) == [ ok |-> TRUE, length |-> Min(8, Len(data)) ]

(* _parse_cat48_data_item: ok = an item dictionary is returned (not None),
   length = second component of the result *)
parse_cat48_data_item(item_code, data) ==
    CASE item_code = "I048/010" -> Fixed(data, 2)
      [] item_code = "I048/020" -> Variable(data)
      [] item_code = "I048/030" -> Variable(data)
      [] item_code = "I048/040" -> Fixed(data, 4)
      [] item_code = "I048/070" -> Fixed(data, 2)
      [] item_code = "I048/090" -> Fixed(data, 2)
      [] item_code = "I048/120" -> Fixed(data, 2)
      [] item_code = "I048/140" -> Fixed(data, 3)
      [] item_code = "I048/161" -> Fixed(data, 2)
      [] item_code = "I048/170" -> Variable(data)
      [] item_code = "I048/200" -> Fixed(data, 4)
      [] item_code = "I048/220" -> Fixed(data, 3)
      [] item_code = "I048/240" -> Fixed(data, 6)
      [] OTHER -> Other(data)

(* _parse_cat21_data_item; I021/040 unpacks '>II' (8 bytes) from 6 bytes,
   struct.error is caught and (None, 0) returned *)
parse_cat21_data_item(item_code, data) ==
    CASE item_code = "I021/010" -> Fixed(data, 2)
      [] item_code = "I021/040" -> Short
      [] item_code = "I021/080" -> Fixed(data, 3)
      [] item_code = "I021/145" -> Fixed(data, 2)
      [] item_code = "I021/170" -> Fixed(data, 6)
      [] OTHER -> Other(data)

(* _parse_cat10_data_item *)
parse_cat10_data_item(item_code, data) ==
    CASE item_code = "I010/010" -> Fixed(data, 2)
      [] item_code = "I010/040" -> Fixed(data, 4)
      [] item_code = "I010/220" -> Fixed(data, 3)
      [] item_code = "I010/245" -> Fixed(data, 6)
      [] OTHER -> Other(data)

parse_data_item(cat, item_code, data) ==
    IF cat = 10 THEN parse_cat10_data_item(item_code, data)
    ELSE IF cat = 21 THEN parse_cat21_data_item(item_code, data)
    ELSE parse_cat48_data_item(item_code, data)

(* the item loop of _process_catNN_message; data_items lists the decoded
   items with the offset they were read at *)
RECURSIVE ItemLoop(_, _, _, _, _)
ItemLoop(cat, raw, items_present, position, data_items) ==
    IF items_present = << >> \/ position >= Len(raw)
    THEN [ data_items |-> data_items, position |-> position ]
    ELSE LET item_code == Head(items_present)
             r == parse_data_item(cat, item_code, Slice(raw, position))
         IN ItemLoop(cat, raw, Tail(items_present), position + r.length,
                     IF r.ok
                     THEN Append(data_items, [ item |-> item_code, at |-> position,
                                               length |-> r.length,
                                               bytes |-> SubSeq(raw, position + 1,
                                                                position + r.length) ])
                     ELSE data_items)

(* struct.unpack('>H', b) *)
U16(b, i) == b[i] * 256 + b[i + 1]

(* struct.unpack('>I', b'\x00' + data[:3]) *)
U24(b) == (b[1] * 256 + b[2]) * 256 + b[3]

(* f"{n:04o}" for n < 8^4, as the sequence of its digits *)
Octal4(n) == << (n \div 512) % 8, (n \div 64) % 8, (n \div 8) % 8, n % 8 >>

(* _decode_mode_3a: code = mode_3a_raw & 0x0FFF *)
decode_mode_3a(mode_3a_raw) == Octal4(mode_3a_raw % 4096)

(* last value decoded for item_code, << >> when the target field stays None *)
ItemBytes(data_items, item_code) ==
    LET hits == SelectSeq(data_items, LAMBDA it : it.item = item_code)
    IN IF hits = << >> THEN << >> ELSE << hits[Len(hits)].bytes >>

(* _apply_catNN_item_to_target for the measured position: range in units of
   1/256 NM and azimuth in units of 360/65536 degrees (the raw values; the
   division by 256.0 and the scaling by 360/65536 are exact in doubles) *)
PolarItem(cat) == IF cat = 48 THEN "I048/040" ELSE "I010/040"

target_range(cat, data_items) ==
    LET b == ItemBytes(data_items, PolarItem(cat))
    IN IF cat = 21 \/ b = << >> THEN << >> ELSE << U16(b[1], 1) >>

target_azimuth(cat, data_items) ==
    LET b == ItemBytes(data_items, PolarItem(cat))
    IN IF cat = 21 \/ b = << >> THEN << >> ELSE << U16(b[1], 3) >>

target_mode_3a(cat, data_items) ==
    LET b == ItemBytes(data_items, "I048/070")
    IN IF cat # 48 \/ b = << >> THEN << >> ELSE << decode_mode_3a(U16(b[1], 1)) >>

(* math.cos over a turn of sixteen sectors of 22.5 degrees, in thousandths;
   the azimuth is in units of 360/65536 degrees *)
CosMilli ==
    << 1000, 924, 707, 383, 0, -383, -707, -924,
       -1000, -924, -707, -383, 0, 383, 707, 924 >>

Sector(azimuth) == ((azimuth + 2048) \div 4096) % 16

cos(azimuth) == CosMilli[Sector(azimuth) + 1]

sin(azimuth) == CosMilli[((Sector(azimuth) + 12) % 16) + 1]

(* 1000 / cos(radians(radar_lat)) for radar_lat = 28.0836 *)
InvCosRadarLat == 1133

(* _convert_polar_to_latlon: the offsets from (radar_lat, radar_lon), north
   and east, in thousandths of the range unit *)
convert_polar_to_latlon(range, azimuth) ==
    [ lat |-> range * cos(azimuth),
      lon |-> range * ((sin(azimuth) * InvCosRadarLat) \div 1000) ]

(* (radar_lat, radar_lon) itself *)
StationOrigin == [ lat |-> 0, lon |-> 0 ]

(* _apply_cat48_item_to_target / _apply_cat10_item_to_target:
   if target['range'] and target['azimuth'] *)
target_latlon(cat, data_items) ==
    LET range == target_range(cat, data_items)
        azimuth == target_azimuth(cat, data_items)
    IN IF range = << >> THEN << >>
       ELSE IF range[1] # 0 /\ azimuth[1] # 0
            THEN << convert_polar_to_latlon(range[1], azimuth[1]) >>
            ELSE << >>

AddressItem(cat) ==
    IF cat = 48 THEN "I048/220" ELSE IF cat = 21 THEN "I021/080" ELSE "I010/220"

target_aircraft_address(cat, data_items) ==
    LET b == ItemBytes(data_items, AddressItem(cat))
    IN IF b = << >> THEN << >> ELSE << U24(b[1]) >>

(* I021/040 is the only source of a decoded latitude / longitude that is not
   derived from range and azimuth; units of 180/2^23 degrees *)
target_wgs84(cat, data_items) ==
    LET b == ItemBytes(data_items, "I021/040")
    IN IF cat # 21 \/ b = << >> THEN << >> ELSE << b[1] >>

(* _process_cat10_message / _process_cat21_message / _process_cat48_message *)
process_cat_message(cat, raw) ==
    LET ex == extract_fspec(Slice(raw, 3))
        items_present == decode_fspec(ex.fspec, MappingOf(cat))
        parsed == ItemLoop(cat, raw, items_present, 3 + ex.position, << >>)
    IN << [ category |-> cat, data_items |-> parsed.data_items,
            end_position |-> parsed.position,
            range |-> target_range(cat, parsed.data_items),
            azimuth |-> target_azimuth(cat, parsed.data_items),
            latlon |-> target_latlon(cat, parsed.data_items),
            mode_3a |-> target_mode_3a(cat, parsed.data_items),
            aircraft_address |-> target_aircraft_address(cat, parsed.data_items),
            wgs84 |-> target_wgs84(cat, parsed.data_items) ] >>

(* struct.unpack('>H', raw_data[1:3]) *)
declared_length(raw) == raw[2] * 256 + raw[3]

(* messages_by_category[category] = messages_by_category.get(category, 0) + 1 *)
CountCategory(by_category, category) ==
    [ c \in (DOMAIN by_category) \cup {category} |->
        IF c = category
        THEN (IF c \in DOMAIN by_category THEN by_category[c] ELSE 0) + 1
        ELSE by_category[c] ]

(* process_asterix_message: [targets, stats] *)
process_asterix_message(raw, st) ==
    IF Len(raw) < 3 THEN [ targets |-> << >>, stats |-> st ]
    ELSE IF declared_length(raw) > Len(raw) THEN [ targets |-> << >>, stats |-> st ]
    ELSE LET st2 == [ st EXCEPT !.total_messages = @ + 1,
                                !.messages_by_category = CountCategory(@, raw[1]) ]
         IN IF raw[1] \in supported_categories
            THEN [ targets |-> process_cat_message(raw[1], raw), stats |-> st2 ]
            ELSE [ targets |-> << >>, stats |-> st2 ]

ProcessAsterixMessage ==
    /\ targets = Pending
    /\ LET r == process_asterix_message(raw_data, processing_stats)
       IN /\ targets' = r.targets
          /\ processing_stats' = r.stats
    /\ UNCHANGED << raw_data, trackerVars, threadVars, fspecVars, otherVars >>

RECURSIVE SeqsUpTo(_, _)
SeqsUpTo(S, n) ==
    IF n = 0 THEN { << >> }
    ELSE LET shorter == SeqsUpTo(S, n - 1)
         IN shorter \cup { Append(q, b) : q \in { x \in shorter : Len(x) = n - 1 }, b \in S }

DecCats == {10, 21, 48, 62}

BodyBytes == {0, 4, 48, 96, 128}

(* scenario S1 of the specification: the bytes listed there;
   30 00 14 F8 00 01 02 00 00 00 02 0A 80 40 00 12 34 *)
S1_Input == << 48, 0, 20, 248, 0, 1, 2, 0, 0, 0, 2, 10, 128, 64, 0, 18, 52 >>

(* category 48 records with I048/040 alone: range 0 at azimuth 90 degrees,
   range 10 NM at azimuth 0, range 10 NM at azimuth 90 degrees *)
PolarInputs ==
    { << 48, 0, 8, 16, 0, 0, 64, 0 >>,
      << 48, 0, 8, 16, 10, 0, 0, 0 >>,
      << 48, 0, 8, 16, 10, 0, 64, 0 >> }

Payloads ==
    { << cat, 0, len >> \o body :
        cat \in DecCats, len \in 0..MaxLenField, body \in SeqsUpTo(BodyBytes, MaxBody) }
    \cup { << >>, << 48 >>, << 48, 0 >>, S1_Input }
    \cup PolarInputs

InitDecoder ==
    /\ raw_data \in Payloads
    /\ targets = Pending
    /\ processing_stats = [ total_messages |-> 0, messages_by_category |-> << >>,
                          processing_errors |-> 0 ]
    /\ active_tracks = << >>
    /\ terminated_tracks = << >>
    /\ stats = ZeroStats
    /\ config = [ track_confirmation_threshold |-> 1, coasting_threshold |-> 1,
                  track_termination_threshold |-> 1 ]
    /\ plots_fed = 0
    /\ issued_ids = << >>
    /\ last_updated = {}
    /\ IdleThreads
    /\ IdleFspec
    /\ IdleOthers

NextDecoder == ProcessAsterixMessage

SpecDecoder == InitDecoder /\ [][NextDecoder]_vars

(* _extract_fspec followed by _decode_fspec, as the _process_catNN_message
   functions call them *)
ExtractAndDecode ==
    /\ fspec_out = << >>
    /\ LET ex == extract_fspec(fspec_in.data)
       IN fspec_out' = << [ fspec |-> ex.fspec, position |-> ex.position,
                            items |-> decode_fspec(ex.fspec, MappingOf(fspec_in.cat)) ] >>
    /\ UNCHANGED << fspec_in, trackerVars, threadVars, decoderVars, otherVars >>

FspecBytes == {0, 1, 6, 129, 254, 255}

InitFspec ==
    /\ fspec_in \in [ data : SeqsUpTo(FspecBytes, MaxFspecData), cat : supported_categories ]
    /\ fspec_out = << >>
    /\ active_tracks = << >>
    /\ terminated_tracks = << >>
    /\ stats = ZeroStats
    /\ config = [ track_confirmation_threshold |-> 1, coasting_threshold |-> 1,
                  track_termination_threshold |-> 1 ]
    /\ plots_fed = 0
    /\ issued_ids = << >>
    /\ last_updated = {}
    /\ IdleThreads
    /\ IdleDecoder
    /\ IdleOthers

NextFspec == ExtractAndDecode

SpecFspec == InitFspec /\ [][NextFspec]_vars

----------------------------------------------------------------------------
(* The message builders: _create_asterix_message and the builders of
   test_asterix_consolidation.py.  Range is in units of 1/256 NM, azimuth in
   units of 360/65536 degrees, latitude and longitude in units of 180/2^23
   degrees; with these units int(range * 256), int(azimuth * 65536 / 360)
   and int(abs(latitude) * 2^23 / 180) are the integers themselves *)

(* struct.pack('>H', n) *)
Bytes2(n) == << (n \div 256) % 256, n % 256 >>

(* struct.pack('>I', n)[1:] *)
Bytes3(n) == << (n \div 65536) % 256, (n \div 256) % 256, n % 256 >>

Abs(n) == IF n < 0 THEN -n ELSE n

PolarBytes(target) ==
    IF target.range # 0 /\ target.azimuth # 0
    THEN Bytes2(target.range) \o Bytes2(target.azimuth)
    ELSE << >>

(* body of the loop over targets of _create_asterix_message *)
EncodeTarget(target, category) ==
    IF category = 48 THEN << 224, 0, 1, 2, 2 >> \o PolarBytes(target)
    ELSE IF category = 21
    THEN << 192, 0, 1, 2 >>
         \o (IF target.latitude # 0 /\ target.longitude # 0
             THEN Bytes3(Abs(target.latitude)) \o Bytes3(Abs(target.longitude))
             ELSE << >>)
    ELSE IF category = 10 THEN << 160, 0, 1, 2 >> \o PolarBytes(target)
    ELSE << >>

RECURSIVE EncodeTargets(_, _)
EncodeTargets(tgts, category) ==
    IF tgts = << >> THEN << >>
    ELSE EncodeTarget(Head(tgts), category) \o EncodeTargets(Tail(tgts), category)

(* struct.pack_into('>H', message, length_pos, total_length) *)
WithLength(message) ==
    << message[1] >> \o Bytes2(Len(message)) \o Slice(message, 3)

create_asterix_message(tgts, category) ==
    WithLength(<< category, 0, 0 >> \o EncodeTargets(tgts, category))

create_test_cat48_message ==
    WithLength(<< 48, 0, 0, 248, 0, 1, 2 >> \o Bytes3(1580224) \o << 2 >>
               \o Bytes2(2688) \o Bytes2(16384) \o Bytes2(4660))

create_test_cat21_message ==
    WithLength(<< 21, 0, 0, 168, 0, 1, 2 >> \o Bytes3(1308790) \o Bytes3(3756609)
               \o Bytes3(1193046))

create_test_cat10_message ==
    WithLength(<< 10, 0, 0, 164, 0, 1, 2 >> \o Bytes2(1331) \o Bytes2(8192)
               \o Bytes3(6636321))

RangeVals == {0, 1, 2688, 65535}

AzimuthVals == {0, 1, 16384, 65535}

LatitudeVals == {-1308790, 0, 1, 1308790}

LongitudeVals == {-3756609, 0, 1, 3756609}

(* the values the test builders encode *)
TestTargets ==
    { [ via |-> "test", category |-> 48, range |-> 2688, azimuth |-> 16384,
        latitude |-> 0, longitude |-> 0, address |-> 0 ],
      [ via |-> "test", category |-> 21, range |-> 0, azimuth |-> 0,
        latitude |-> 1308790, longitude |-> -3756609, address |-> 1193046 ],
      [ via |-> "test", category |-> 10, range |-> 1331, azimuth |-> 8192,
        latitude |-> 0, longitude |-> 0, address |-> 6636321 ] }

SourceTargets ==
    [ via : {"encoder"}, category : {10, 48}, range : RangeVals, azimuth : AzimuthVals,
      latitude : {0}, longitude : {0}, address : {0} ]
    \cup [ via : {"encoder"}, category : {21}, range : {0}, azimuth : {0},
           latitude : LatitudeVals, longitude : LongitudeVals, address : {0} ]
    \cup TestTargets

CreateMessage ==
    /\ source_target # << >>
    /\ raw_data = << >>
    /\ targets = Pending
    /\ raw_data' =
         IF source_target.via = "encoder"
         THEN create_asterix_message(<< source_target >>, source_target.category)
         ELSE IF source_target.category = 48 THEN create_test_cat48_message
         ELSE IF source_target.category = 21 THEN create_test_cat21_message
         ELSE create_test_cat10_message
    /\ UNCHANGED << targets, processing_stats, source_target, klv, cot, trackerVars,
                    threadVars, fspecVars, laterVars >>

DecodeMessage ==
    /\ raw_data # << >>
    /\ ProcessAsterixMessage

InitCodec ==
    /\ source_target \in SourceTargets
    /\ klv = << >>
    /\ cot = << >>
    /\ IdleLater
    /\ IdleDecoder
    /\ active_tracks = << >>
    /\ terminated_tracks = << >>
    /\ stats = ZeroStats
    /\ config = [ track_confirmation_threshold |-> 1, coasting_threshold |-> 1,
                  track_termination_threshold |-> 1 ]
    /\ plots_fed = 0
    /\ issued_ids = << >>
    /\ last_updated = {}
    /\ IdleThreads
    /\ fspec_in = << >>
    /\ fspec_out = << >>

NextCodec == CreateMessage \/ DecodeMessage

SpecCodec == InitCodec /\ [][NextCodec]_vars

----------------------------------------------------------------------------
(* KLVConverter, MISB ST 0601 packets.  A track is given by the values the
   encoder packs: heading in units of 360/65536 degrees, latitude in units of
   90/(2^31-1) degrees, longitude in units of 180/(2^31-1) degrees, elevation
   in metres; a missing key is << >> *)

UAS_DATALINK_LS_UL == << 6, 14, 43, 52, 2, 11, 1, 1, 14, 1, 3, 1, 1, 0, 0, 0 >>

VMTI_LS_UL == << 6, 14, 43, 52, 2, 11, 1, 1, 14, 1, 3, 3, 6, 0, 0, 0 >>

ST0601_ELEMENTS == {1, 2, 3, 4, 5, 6, 7} \cup (13..25) \cup {40, 41, 42, 65}

(* lengths and keys are only compared with packet sizes and element keys;
   larger values are kept as this value *)
KlvHuge == 65536

(* struct.pack('>i', v) *)
PackInt32(v) ==
    IF v >= 0 THEN << v \div 16777216 >> \o Bytes3(v % 16777216)
    ELSE LET u == v + 2147483647 + 1
         IN << 128 + (u \div 16777216) >> \o Bytes3(u % 16777216)

RECURSIVE BigEndianBytes(_)
BigEndianBytes(n) ==
    IF n = 0 THEN << >> ELSE Append(BigEndianBytes(n \div 256), n % 256)

(* _encode_ber_length *)
encode_ber_length(length) ==
    IF length <= 127 THEN << length >>
    ELSE << 128 + Len(BigEndianBytes(length)) >> \o BigEndianBytes(length)

RECURSIVE BerLengthLoop(_, _, _, _)
BerLengthLoop(data, i, num_octets, length) ==
    IF i > num_octets THEN [ raised |-> FALSE, length |-> length, consumed |-> num_octets + 1 ]
    ELSE IF i >= Len(data) THEN [ raised |-> TRUE, length |-> 0, consumed |-> 0 ]
    ELSE LET v == length * 256 + data[i + 1]
         IN BerLengthLoop(data, i + 1, num_octets, IF v > KlvHuge THEN KlvHuge ELSE v)

(* _decode_ber_length; raised = IndexError or ValueError *)
decode_ber_length(data) ==
    IF Len(data) = 0 THEN [ raised |-> TRUE, length |-> 0, consumed |-> 0 ]
    ELSE IF data[1] <= 127 THEN [ raised |-> FALSE, length |-> data[1], consumed |-> 1 ]
    ELSE IF data[1] % 128 = 0 THEN [ raised |-> TRUE, length |-> 0, consumed |-> 0 ]
    ELSE BerLengthLoop(data, 1, data[1] % 128, 0)

(* _decode_ber_oid *)
RECURSIVE decode_ber_oid_from(_, _, _)
decode_ber_oid_from(data, offset, oid) ==
    IF offset >= Len(data) THEN [ oid |-> oid, consumed |-> offset ]
    ELSE LET byte == data[offset + 1]
             v == oid * 128 + (byte % 128)
             next == IF v > KlvHuge THEN KlvHuge ELSE v
         IN IF byte < 128 THEN [ oid |-> next, consumed |-> offset + 1 ]
            ELSE decode_ber_oid_from(data, offset + 1, next)

(* _encode_klv_item for the keys <= 127 the ST 0601 encoder uses *)
encode_klv_item(key, value) == << key >> \o encode_ber_length(Len(value)) \o value

Failed == [ key |-> 0, value |-> << >>, item_length |-> 0 ]

(* _decode_klv_item: (0, b'', 0) when an exception is caught *)
decode_klv_item(data) ==
    IF Len(data) = 0 THEN Failed
    ELSE LET k == IF data[1] <= 127 THEN [ oid |-> data[1], consumed |-> 1 ]
                  ELSE decode_ber_oid_from(data, 0, 0)
             l == decode_ber_length(Slice(data, k.consumed))
             offset == k.consumed + l.consumed
         IN IF l.raised THEN Failed
            ELSE [ key |-> k.oid,
                   value |-> SubSeq(data, offset + 1, Min(offset + l.length, Len(data))),
                   item_length |-> offset + l.length ]

(* _calculate_checksum *)
RECURSIVE ChecksumFrom(_, _, _)
ChecksumFrom(data, i, checksum) ==
    IF i >= Len(data) THEN checksum
    ELSE LET word == IF i + 1 < Len(data) THEN data[i + 1] * 256 + data[i + 2]
                     ELSE data[i + 1] * 256
         IN ChecksumFrom(data, i + 2, (checksum + word) % 65536)

calculate_checksum(data) == (65536 - ChecksumFrom(data, 0, 0)) % 65536

Mission == << 77, 73, 83, 83, 73, 79, 78, 45 >>

(* _create_st0601_packet *)
create_st0601_packet(track, timestamp) ==
    LET items ==
            encode_klv_item(2, timestamp)
            \o encode_klv_item(3, Mission \o track.track_id)
            \o encode_klv_item(4, track.track_id)
            \o (IF track.heading # << >>
                THEN encode_klv_item(5, Bytes2(track.heading[1])) ELSE << >>)
            \o (IF track.position # << >>
                THEN encode_klv_item(40, PackInt32(track.position[1]))
                     \o encode_klv_item(41, PackInt32(track.position[2]))
                     \o (IF track.elevation # << >>
                         THEN encode_klv_item(42, Bytes2(track.elevation[1]))
                         ELSE << >>)
                ELSE << >>)
            \o encode_klv_item(65, << 16 >>)
        checksum == calculate_checksum(UAS_DATALINK_LS_UL \o items)
        local_set == encode_klv_item(1, Bytes2(checksum)) \o items
    IN UAS_DATALINK_LS_UL \o encode_ber_length(Len(local_set)) \o local_set

(* the while loop of _parse_st0601_packet; an item of length 0 leaves offset
   unchanged and the loop never ends *)
RECURSIVE ParseItems(_, _, _)
ParseItems(local_set_data, offset, metadata) ==
    IF offset >= Len(local_set_data) THEN [ status |-> "metadata", items |-> metadata ]
    ELSE LET it == decode_klv_item(Slice(local_set_data, offset))
         IN IF it.item_length = 0 THEN [ status |-> "hangs", items |-> metadata ]
            ELSE ParseItems(local_set_data, offset + it.item_length,
                            IF it.key \in ST0601_ELEMENTS
                            THEN Append(metadata, [ key |-> it.key, value |-> it.value ])
                            ELSE metadata)

NoMetadata == [ status |-> "empty", items |-> << >> ]

(* _parse_st0601_packet *)
parse_st0601_packet(klv_data) ==
    LET l == decode_ber_length(Slice(klv_data, 16))
    IN IF l.raised THEN NoMetadata
       ELSE ParseItems(SubSeq(klv_data, 16 + l.consumed + 1,
                              Min(16 + l.consumed + l.length, Len(klv_data))),
                       0, << >>)

(* parse_klv_packet *)
parse_klv_packet(klv_data) ==
    IF Len(klv_data) < 16 THEN NoMetadata
    ELSE IF SubSeq(klv_data, 1, 16) = UAS_DATALINK_LS_UL THEN parse_st0601_packet(klv_data)
    ELSE IF SubSeq(klv_data, 1, 16) = VMTI_LS_UL THEN [ status |-> "st0902", items |-> << >> ]
    ELSE NoMetadata

(* validate_klv_packet *)
validate_klv_packet(klv_data) ==
    IF Len(klv_data) < 16 THEN FALSE
    ELSE IF SubSeq(klv_data, 1, 16) \notin { UAS_DATALINK_LS_UL, VMTI_LS_UL } THEN FALSE
    ELSE LET l == decode_ber_length(Slice(klv_data, 16))
         IN IF l.raised THEN FALSE
            ELSE Len(klv_data) = 16 + l.consumed + l.length

KlvTracks ==
    [ track_id : { << 84 >>, << 84, 49 >> },
      heading : { << >>, << 16384 >> },
      position : { << >>, << 671078400, -962933760 >> },
      elevation : { << >>, << 3048 >> } ]

(* datetime.utcnow() in microseconds, packed '>Q' *)
KlvTimestamps == { << 0, 6, 38, 155, 42, 17, 0, 0 >>, << 0, 6, 38, 155, 42, 17, 0, 1 >> }

TrackToKlvPacket ==
    /\ klv # << >>
    /\ klv.packet = << >>
    /\ klv' = [ klv EXCEPT !.packet = create_st0601_packet(klv.track, klv.timestamp) ]
    /\ UNCHANGED << source_target, cot, trackerVars, threadVars, decoderVars, fspecVars, laterVars >>

FlipBit(byte, k) == IF BitSet(byte, k) THEN byte - 2 ^ k ELSE byte + 2 ^ k

(* offset of the first byte of the local set *)
PayloadStart(packet) == 16 + decode_ber_length(Slice(packet, 16)).consumed

(* one bit of one byte of the local set is flipped in transit *)
AlterPayloadByte ==
    /\ klv # << >>
    /\ klv.packet # << >>
    /\ klv.altered = 0
    /\ klv.parsed = << >>
    /\ klv.valid = << >>
    /\ \E i \in (PayloadStart(klv.packet) + 1)..Len(klv.packet), k \in KlvFlippedBits :
         klv' = [ klv EXCEPT !.packet = [ klv.packet EXCEPT ![i] = FlipBit(@, k) ],
                             !.altered = i ]
    /\ UNCHANGED << source_target, cot, trackerVars, threadVars, decoderVars, fspecVars, laterVars >>

ParseKlvPacket ==
    /\ klv # << >>
    /\ klv.packet # << >>
    /\ klv.parsed = << >>
    /\ klv' = [ klv EXCEPT !.parsed = << parse_klv_packet(klv.packet) >> ]
    /\ UNCHANGED << source_target, cot, trackerVars, threadVars, decoderVars, fspecVars, laterVars >>

ValidateKlvPacket ==
    /\ klv # << >>
    /\ klv.packet # << >>
    /\ klv.valid = << >>
    /\ klv' = [ klv EXCEPT !.valid = << validate_klv_packet(klv.packet) >> ]
    /\ UNCHANGED << source_target, cot, trackerVars, threadVars, decoderVars, fspecVars, laterVars >>

InitKlv ==
    /\ klv \in [ track : KlvTracks, timestamp : KlvTimestamps, packet : { << >> },
                 altered : {0}, parsed : { << >> }, valid : { << >> } ]
    /\ cot = << >>
    /\ source_target = << >>
    /\ IdleLater
    /\ IdleDecoder
    /\ active_tracks = << >>
    /\ terminated_tracks = << >>
    /\ stats = ZeroStats
    /\ config = [ track_confirmation_threshold |-> 1, coasting_threshold |-> 1,
                  track_termination_threshold |-> 1 ]
    /\ plots_fed = 0
    /\ issued_ids = << >>
    /\ last_updated = {}
    /\ IdleThreads
    /\ fspec_in = << >>
    /\ fspec_out = << >>

NextKlv == TrackToKlvPacket \/ AlterPayloadByte \/ ParseKlvPacket \/ ValidateKlvPacket

SpecKlv == InitKlv /\ [][NextKlv]_vars

----------------------------------------------------------------------------
(* CoTConverter and CoTProcessor.  A dictionary entry is Missing, None or a
   value; numbers stand for the floats of the track.  An attribute text is
   numeric (str of a number, which float() reads back as the same number) or
   not (str(None) = 'None', on which float() raises ValueError) *)

Missing == [ has |-> FALSE, none |-> FALSE, v |-> 0 ]

NoneVal == [ has |-> TRUE, none |-> TRUE, v |-> 0 ]

Val(n) == [ has |-> TRUE, none |-> FALSE, v |-> n ]

Text(n) == [ numeric |-> TRUE, value |-> n ]

NoneText == [ numeric |-> FALSE, value |-> 0 ]

(* str(track.get(key, 0)) *)
Str(field) ==
    IF ~field.has THEN Text(0) ELSE IF field.none THEN NoneText ELSE Text(field.v)

EventAttrs == { "version", "uid", "type", "time" }

NotXml == [ xml |-> FALSE, tag |-> "", attrs |-> {}, point |-> << >>, track |-> << >> ]

(* convert_track_to_cot: "" when an exception is caught (KeyError for a
   missing key, TypeError of ET.tostring for an attribute set to None) *)
convert_track_to_cot(track) ==
    IF \/ ~track.track_id.has \/ track.track_id.none
       \/ ~track.type.has \/ ~track.status.has
       \/ ~track.latitude.has \/ ~track.longitude.has
       \/ (track.callsign.has /\ track.callsign.none)
    THEN NotXml
    ELSE [ xml |-> TRUE, tag |-> "event",
           attrs |-> EventAttrs \cup { "start", "stale", "how" },
           point |-> << [ lat |-> << Str(track.latitude) >>,
                          lon |-> << Str(track.longitude) >>,
                          hae |-> << Str(track.altitude) >> ] >>,
           track |-> << [ course |-> << Str(track.heading) >>,
                          speed |-> << Str(track.speed) >> ] >> ]

(* float(element.get(name, 0)): [raised, value] *)
FloatOf(attr) ==
    IF attr = << >> THEN [ raised |-> FALSE, value |-> 0 ]
    ELSE IF attr[1].numeric THEN [ raised |-> FALSE, value |-> attr[1].value ]
    ELSE [ raised |-> TRUE, value |-> 0 ]

(* _parse_cot_event: << >> for None *)
parse_cot_event(event) ==
    IF event.point = << >> THEN << >>
    ELSE LET point == event.point[1]
             latitude == FloatOf(point.lat)
             longitude == FloatOf(point.lon)
             altitude == FloatOf(point.hae)
         IN IF latitude.raised \/ longitude.raised \/ altitude.raised THEN << >>
            ELSE IF event.track = << >>
            THEN << [ latitude |-> latitude.value, longitude |-> longitude.value,
                      altitude |-> IF altitude.value > 0 THEN Val(altitude.value)
                                   ELSE NoneVal,
                      heading |-> Missing, speed |-> Missing ] >>
            ELSE LET heading == FloatOf(event.track[1].course)
                     speed == FloatOf(event.track[1].speed)
                 IN IF heading.raised \/ speed.raised THEN << >>
                    ELSE << [ latitude |-> latitude.value, longitude |-> longitude.value,
                              altitude |-> IF altitude.value > 0 THEN Val(altitude.value)
                                           ELSE NoneVal,
                              heading |-> Val(heading.value),
                              speed |-> Val(speed.value) ] >>

(* parse_cot_xml; an events root has no event children here *)
parse_cot_xml(doc) ==
    IF ~doc.xml THEN << >>
    ELSE IF doc.tag = "event" THEN parse_cot_event(doc)
    ELSE << >>

(* CoTConverter.validate_cot_xml *)
validate_cot_xml(doc) ==
    IF ~doc.xml THEN FALSE
    ELSE IF doc.tag \notin { "event", "events" } THEN FALSE
    ELSE IF doc.tag = "event"
    THEN IF doc.point = << >> THEN FALSE
         ELSE doc.point[1].lat # << >> /\ doc.point[1].lon # << >>
    ELSE TRUE

(* CoTProcessor.validate_cot_xml *)
processor_validate_cot_xml(doc) ==
    IF ~doc.xml THEN FALSE
    ELSE IF ~(EventAttrs \subseteq doc.attrs) THEN FALSE
    ELSE IF doc.point = << >> THEN FALSE
    ELSE ~FloatOf(doc.point[1].lat).raised /\ ~FloatOf(doc.point[1].lon).raised
         /\ ~FloatOf(doc.point[1].hae).raised

CotTracks ==
    [ track_id : { Val(1) }, type : { Missing, Val(1) }, status : { Val(1) },
      latitude : { Val(281) }, longitude : { Val(-807) },
      altitude : { Missing, NoneVal, Val(0), Val(1000) },
      speed : { Missing, Val(194) }, heading : { NoneVal, Val(90) },
      callsign : { Missing, NoneVal, Val(7) } ]

(* documents received from elsewhere *)
ReceivedDocs ==
    [ xml : { TRUE }, tag : { "event", "events", "foo" },
      attrs : { EventAttrs, EventAttrs \ { "uid" }, {} },
      point : { << >> } \cup
              { << pt >> : pt \in [ lat : { << >>, << Text(1) >>, << NoneText >> },
                                    lon : { << >>, << Text(2) >> },
                                    hae : { << >>, << Text(5) >> } ] },
      track : { << >> } ]
    \cup { NotXml }

ConvertTrackToCot ==
    /\ cot # << >>
    /\ cot.track # << >>
    /\ cot.doc = << >>
    /\ cot' = [ cot EXCEPT !.doc = << convert_track_to_cot(cot.track[1]) >> ]
    /\ UNCHANGED << source_target, klv, trackerVars, threadVars, decoderVars, fspecVars, laterVars >>

ValidateCotXml ==
    /\ cot # << >>
    /\ cot.doc # << >>
    /\ cot.valid = << >>
    /\ cot' = [ cot EXCEPT !.valid = << validate_cot_xml(cot.doc[1]) >> ]
    /\ UNCHANGED << source_target, klv, trackerVars, threadVars, decoderVars, fspecVars, laterVars >>

ProcessorValidateCotXml ==
    /\ cot # << >>
    /\ cot.doc # << >>
    /\ cot.processor_valid = << >>
    /\ cot' = [ cot EXCEPT !.processor_valid = << processor_validate_cot_xml(cot.doc[1]) >> ]
    /\ UNCHANGED << source_target, klv, trackerVars, threadVars, decoderVars, fspecVars, laterVars >>

ParseCotXml ==
    /\ cot # << >>
    /\ cot.doc # << >>
    /\ cot.parsed = << >>
    /\ cot' = [ cot EXCEPT !.parsed = << parse_cot_xml(cot.doc[1]) >> ]
    /\ UNCHANGED << source_target, klv, trackerVars, threadVars, decoderVars, fspecVars, laterVars >>

InitCot ==
    /\ cot \in [ track : { << t >> : t \in CotTracks }, doc : { << >> },
                 valid : { << >> }, processor_valid : { << >> }, parsed : { << >> } ]
           \cup [ track : { << >> }, doc : { << x >> : x \in ReceivedDocs },
                  valid : { << >> }, processor_valid : { << >> }, parsed : { << >> } ]
    /\ source_target = << >>
    /\ klv = << >>
    /\ IdleLater
    /\ IdleDecoder
    /\ active_tracks = << >>
    /\ terminated_tracks = << >>
    /\ stats = ZeroStats
    /\ config = [ track_confirmation_threshold |-> 1, coasting_threshold |-> 1,
                  track_termination_threshold |-> 1 ]
    /\ plots_fed = 0
    /\ issued_ids = << >>
    /\ last_updated = {}
    /\ IdleThreads
    /\ fspec_in = << >>
    /\ fspec_out = << >>

NextCot == ConvertTrackToCot \/ ValidateCotXml \/ ProcessorValidateCotXml \/ ParseCotXml

SpecCot == InitCot /\ [][NextCot]_vars

----------------------------------------------------------------------------
(* Two fresh TrackCalculator instances with the same configuration that are
   fed the same batches.  The numerics are functions of a tracker's contents
   and of the plot: as long as the two instances hold the same tracks with the
   same associated plots, they compute the same verdicts for a plot.  Each
   instance reads datetime.now() in its own _update_track_states. *)

ClockVals == {0, 1}

IdleTracker ==
    /\ active_tracks = << >>
    /\ terminated_tracks = << >>
    /\ stats = ZeroStats
    /\ config = [ track_confirmation_threshold |-> 1, coasting_threshold |-> 1,
                  track_termination_threshold |-> 1 ]
    /\ plots_fed = 0
    /\ issued_ids = << >>
    /\ last_updated = {}

(* variant: coasting decided by the wall clock instead of the misses *)
update_track_states_at_ByClock(T, cfg, current_time) ==
    LET upd == update_track_states(T, cfg)
    IN [ upd EXCEPT !.active_tracks =
           [ i \in 1..Len(@) |->
               IF @[i].state = "confirmed" /\ current_time = 1
               THEN [ @[i] EXCEPT !.state = "coasting" ]
               ELSE @[i] ] ]

(* _update_track_states: current_time = datetime.now() is assigned and never
   read *)
update_track_states_at(T, cfg, current_time) == update_track_states(T, cfg)

(* an instance inside the plot loop: I.T, I.updated_tracks and the history
   I.log of << plot_id, track_id >> (the track the plot was associated with,
   or the track initiated from it) *)
Instance(T, log) == [ T |-> T, updated_tracks |-> {}, log |-> log ]

LoggedPlot(I, plot, num) ==
    LET r == process_single_plot(I.T, plot, num)
        track_id == IF r.assoc # 0 THEN r.assoc
                    ELSE r.T.issued[Len(r.T.issued)]
    IN [ T |-> r.T,
         updated_tracks |-> IF r.assoc # 0 THEN I.updated_tracks \cup {r.assoc}
                            ELSE I.updated_tracks,
         log |-> Append(I.log, << plot.plot_id, track_id >>) ]

(* the for-loop of process_plot_batch in both instances *)
RECURSIVE PairPlots(_, _, _)
PairPlots(A, B, plots) ==
    IF plots = << >> THEN { << A, B >> }
    ELSE UNION { UNION { PairPlots(LoggedPlot(A, Head(plots), na),
                                   LoggedPlot(B, Head(plots), nb),
                                   Tail(plots))
                         : nb \in IF A.T = B.T THEN {na} ELSE Numerics(B.T) }
                 : na \in Numerics(A.T) }

(* process_plot_batch after the plot loop *)
FinishBatch(I, before, sorted, cfg, current_time) ==
    LET aged == age_unassociated_tracks(I.T, I.updated_tracks)
        upd  == update_track_states_at(aged, cfg, current_time)
        done == perform_track_maintenance(upd, cfg)
        fin  == [ done EXCEPT !.stats.total_plots_processed = @ + Len(sorted) ]
    IN CountMissedBatches(fin, I.updated_tracks, Keys(before.terminated_tracks))

ProcessPlotBatchPair ==
    /\ pair # << >>
    /\ \E n \in 0..MaxBatch :
         /\ pair.fed + n <= MaxPlots
         /\ \E plots \in PlotBatches(pair.fed, n) :
              LET sorted == SortByTimestamp(plots)
              IN \E r \in PairPlots(Instance(pair.a, pair.log_a),
                                    Instance(pair.b, pair.log_b), sorted),
                    nowA \in ClockVals, nowB \in ClockVals :
                   pair' = [ pair EXCEPT
                               !.a = FinishBatch(r[1], pair.a, sorted, pair.config, nowA),
                               !.b = FinishBatch(r[2], pair.b, sorted, pair.config, nowB),
                               !.log_a = r[1].log,
                               !.log_b = r[2].log,
                               !.fed = @ + n ]
    /\ UNCHANGED << trackerVars, threadVars, decoderVars, fspecVars,
                    source_target, klv, cot, s3, udp, gate, td >>

InitPair ==
    /\ pair \in [ a : { Tracker(<< >>, << >>, ZeroStats, << >>) },
                  b : { Tracker(<< >>, << >>, ZeroStats, << >>) },
                  log_a : { << >> }, log_b : { << >> }, fed : {0},
                  config : Configs ]
    /\ IdleTracker
    /\ IdleThreads
    /\ IdleDecoder
    /\ IdleFspec
    /\ source_target = << >>
    /\ klv = << >>
    /\ cot = << >>
    /\ s3 = << >>
    /\ udp = << >>
    /\ gate = << >>
    /\ td = << >>

NextPair == ProcessPlotBatchPair

SpecPair == InitPair /\ [][NextPair]_vars

----------------------------------------------------------------------------
(* The straight-line scenario of validate_tracking_accuracy: the plots of one
   aircraft flying east at 100 m/s, one second apart, measured with the noise
   of generate_aircraft_trajectory, fed to a fresh TrackCalculator with the
   default configuration.  Scores are in thousandths here.  Every plot lies
   within the position gate (10 to 15 km) of every track made from the
   aircraft's plots, a few hundred metres from the predicted position at
   most; the course from the last position to the plot differs from the
   predicted course by the noise of the two positions. *)

LineConfig == [ track_confirmation_threshold |-> 2, coasting_threshold |-> 8,
                track_termination_threshold |-> 15 ]

(* position_score = 1.0 - position_distance / max_distance *)
PositionScoreVals == {970, 1000}

(* math.exp(-(course_difference**2) / (2 * tolerance**2)) for a difference
   between the tolerance and 0 *)
GaussVals == {607, 1000}

(* what the noise decides for one track and one plot: course_difference <=
   tolerance or not, the Gaussian score when it is, and course_variance < 0.1 *)
CourseObservations ==
    [ within : {TRUE}, gauss : GaussVals, consistent : BOOLEAN ]
    \cup [ within : {FALSE}, gauss : {0}, consistent : BOOLEAN ]

calculate_course_association_score(track, obs) ==
    IF track.course_len < 2 THEN 500
    ELSE LET course_score == IF obs.within THEN obs.gauss ELSE 100
             boosted == IF obs.consistent THEN (course_score * 12) \div 10
                        ELSE course_score
         IN Min(boosted, 1000)

(* combined_score of _find_course_association_candidates, in hundredths *)
CombinedScore(track, position_score, obs) ==
    LET course_score == calculate_course_association_score(track, obs)
    IN IF track.course_len >= MatureCourseLen
       THEN (3 * position_score + 7 * course_score) \div 100
       ELSE (7 * position_score + 3 * course_score) \div 100

(* the verdicts for one plot of the aircraft: every active track is a course
   candidate, the fallback pass does not run, and the speed of an updated
   track lies between min_speed_threshold and max_speed_threshold *)
LineNumerics(T) ==
    LET n == Len(T.active_tracks)
    IN { [ course |-> [ i \in 1..n |->
                          CombinedScore(T.active_tracks[i], ps[i], ob[i]) ],
           fallback |-> NoScores(n),
           speed |-> "cruise" ] :
           ps \in [ 1..n -> PositionScoreVals ],
           ob \in [ 1..n -> CourseObservations ] }

(* the for-loop of process_plot_batch over the aircraft's plots *)
RECURSIVE LinePlots(_, _)
LinePlots(I, plots) ==
    IF plots = << >> THEN { I }
    ELSE UNION { LinePlots(LoggedPlot(I, Head(plots), num), Tail(plots))
                 : num \in LineNumerics(I.T) }

(* generate_aircraft_trajectory: plot t has timestamp current_time + t s *)
LinePlotBatch(first, n) ==
    [ i \in 1..n |-> [ plot_id |-> first + i, timestamp |-> first + i ] ]

FeedStraightLine ==
    /\ s3 # << >>
    /\ \E n \in 1..MaxBatch :
         /\ s3.fed + n <= MaxLinePlots
         /\ LET sorted == SortByTimestamp(LinePlotBatch(s3.fed, n))
            IN \E r \in LinePlots(Instance(s3.T, s3.log), sorted),
                  current_time \in ClockVals :
                 s3' = [ T |-> FinishBatch(r, s3.T, sorted, LineConfig, current_time),
                         log |-> r.log,
                         fed |-> s3.fed + n ]
    /\ UNCHANGED << trackerVars, threadVars, decoderVars, fspecVars,
                    source_target, klv, cot, pair, udp, gate, td >>

InitLine ==
    /\ s3 = [ T |-> Tracker(<< >>, << >>, ZeroStats, << >>), log |-> << >>, fed |-> 0 ]
    /\ IdleTracker
    /\ IdleThreads
    /\ IdleDecoder
    /\ IdleFspec
    /\ source_target = << >>
    /\ klv = << >>
    /\ cot = << >>
    /\ pair = << >>
    /\ udp = << >>
    /\ gate = << >>
    /\ td = << >>

NextLine == FeedStraightLine

SpecLine == InitLine /\ [][NextLine]_vars

----------------------------------------------------------------------------
(* UDPAsterixReceiver.  Sockets are numbered in the order start() creates
   them; self.socket is 0 for None.  start() and stop() are called by the
   threads of Callers and are made of the statements of the code; every
   start() spawns a thread that runs _receive_loop.  A thread inside recvfrom
   is "blocked" on the socket object it read from self.socket.  What recvfrom
   does when another thread closes the socket it is blocked on depends on the
   platform: it keeps waiting, returns a datagram that arrives later, or
   raises; all three are steps of the model.  stats["errors"] is not part of
   the state. *)

Callers == {"main", "request"}

ReceiveLoop(pc, sock) == [ pc |-> pc, sock |-> sock ]

UdpOthersUnchanged ==
    UNCHANGED << trackerVars, threadVars, decoderVars, fspecVars,
                 source_target, klv, cot, pair, s3, gate, td >>

(* socket.socket(...), setsockopt(SO_REUSEADDR), bind: with SO_REUSEADDR a
   second UDP socket binds to the same address and port *)
StartBind(c) ==
    /\ udp.callers[c] = "idle"
    /\ udp.calls < MaxCalls
    /\ udp' = [ udp EXCEPT !.created = @ + 1,
                           !.socket = udp.created + 1,
                           !.calls = @ + 1,
                           !.stopped = FALSE,
                           !.callers = [ o \in Callers |->
                               IF o = c THEN "start_running"
                               ELSE IF udp.callers[o] = "stop_close" THEN "stop_close_raced"
                               ELSE udp.callers[o] ] ]
    /\ UdpOthersUnchanged

(* self.running = True *)
StartRunning(c) ==
    /\ udp.callers[c] = "start_running"
    /\ udp' = [ udp EXCEPT !.running = TRUE, !.callers[c] = "start_thread" ]
    /\ UdpOthersUnchanged

(* threading.Thread(target=self._receive_loop, daemon=True).start() *)
StartThread(c) ==
    /\ udp.callers[c] = "start_thread"
    /\ udp' = [ udp EXCEPT !.loops = Append(@, ReceiveLoop("while", 0)),
                           !.callers[c] = "idle" ]
    /\ UdpOthersUnchanged

(* stop(): self.running = False *)
StopRunning(c) ==
    /\ udp.callers[c] = "idle"
    /\ udp.calls < MaxCalls
    /\ udp' = [ udp EXCEPT !.running = FALSE,
                           !.calls = @ + 1,
                           !.callers[c] =
                               IF \A o \in Callers \ {c} : udp.callers[o] = "idle"
                               THEN "stop_close" ELSE "stop_close_raced" ]
    /\ UdpOthersUnchanged

(* stop(): if self.socket: self.socket.close().  stopped (history): stop()
   has returned on a started receiver, no start() ran while it did
   ("stop_close_raced" otherwise) and no start() has begun since *)
StopClose(c) ==
    /\ udp.callers[c] \in {"stop_close", "stop_close_raced"}
    /\ udp' = [ udp EXCEPT
                  !.closed = IF udp.socket # 0 THEN @ \cup {udp.socket} ELSE @,
                  !.stopped = /\ udp.loops # << >>
                              /\ udp.callers[c] = "stop_close"
                              /\ \A o \in Callers \ {c} : udp.callers[o] = "idle",
                  !.callers[c] = "idle" ]
    /\ UdpOthersUnchanged

(* while self.running *)
LoopWhile(t) ==
    /\ udp.loops[t].pc = "while"
    /\ udp' = [ udp EXCEPT !.loops[t].pc = IF udp.running THEN "recvfrom" ELSE "exited" ]
    /\ UdpOthersUnchanged

(* self.socket.recvfrom(buffer_size): on a closed socket it raises and the
   except clause returns to the loop test; otherwise the thread waits *)
LoopRecvfrom(t) ==
    /\ udp.loops[t].pc = "recvfrom"
    /\ udp' = [ udp EXCEPT !.loops[t] =
                  IF udp.socket \in udp.closed THEN ReceiveLoop("while", 0)
                  ELSE ReceiveLoop("blocked", udp.socket) ]
    /\ UdpOthersUnchanged

(* a datagram arrives on the socket the thread waits on: recvfrom returns,
   stats["messages_received"] += 1 *)
LoopDatagram(t) ==
    /\ udp.loops[t].pc = "blocked"
    /\ udp.received < MaxDatagrams
    /\ udp' = [ udp EXCEPT !.received = @ + 1, !.loops[t].pc = "process" ]
    /\ UdpOthersUnchanged

(* recvfrom raises because the socket was closed under it *)
LoopClosed(t) ==
    /\ udp.loops[t].pc = "blocked"
    /\ udp.loops[t].sock \in udp.closed
    /\ udp' = [ udp EXCEPT !.loops[t] = ReceiveLoop("while", 0) ]
    /\ UdpOthersUnchanged

(* self._process_asterix_data(data, addr): the datagram is handed to the
   decoder.  late (history): datagrams handed over while stopped *)
LoopProcess(t) ==
    /\ udp.loops[t].pc = "process"
    /\ udp' = [ udp EXCEPT !.handed = @ + 1,
                           !.late = IF udp.stopped THEN @ + 1 ELSE @,
                           !.loops[t] = ReceiveLoop("while", 0) ]
    /\ UdpOthersUnchanged

InitUdp ==
    /\ udp = [ running |-> FALSE, socket |-> 0, created |-> 0, closed |-> {},
               callers |-> [ c \in Callers |-> "idle" ], loops |-> << >>,
               calls |-> 0, received |-> 0, handed |-> 0,
               stopped |-> FALSE, late |-> 0 ]
    /\ IdleTracker
    /\ IdleThreads
    /\ IdleDecoder
    /\ IdleFspec
    /\ source_target = << >>
    /\ klv = << >>
    /\ cot = << >>
    /\ pair = << >>
    /\ s3 = << >>
    /\ gate = << >>
    /\ td = << >>

NextUdp ==
    \/ \E c \in Callers : StartBind(c)
    \/ \E c \in Callers : StartRunning(c)
    \/ \E c \in Callers : StartThread(c)
    \/ \E c \in Callers : StopRunning(c)
    \/ \E c \in Callers : StopClose(c)
    \/ \E t \in 1..Len(udp.loops) : LoopWhile(t)
    \/ \E t \in 1..Len(udp.loops) : LoopRecvfrom(t)
    \/ \E t \in 1..Len(udp.loops) : LoopDatagram(t)
    \/ \E t \in 1..Len(udp.loops) : LoopClosed(t)
    \/ \E t \in 1..Len(udp.loops) : LoopProcess(t)

(* statements of a call that has begun, and the statements of the loops that
   do not wait for the network *)
UdpCallStep == \E c \in Callers : StartRunning(c) \/ StartThread(c) \/ StopClose(c)

UdpLoopStep == \E t \in 1..Len(udp.loops) : LoopWhile(t) \/ LoopRecvfrom(t) \/ LoopProcess(t)

SpecUdp == InitUdp /\ [][NextUdp]_vars

(* a call that has begun returns and a thread that can take a statement takes
   it; nobody is obliged to call start() or stop(), to send a datagram, or to
   make a pending recvfrom fail *)
SpecUdpFair ==
    /\ InitUdp
    /\ [][NextUdp]_vars
    /\ WF_vars(UdpCallStep)
    /\ WF_vars(UdpLoopStep)

----------------------------------------------------------------------------
AllTracks == Range(active_tracks) \cup Range(terminated_tracks)

(* C1: after any sequence of process_plot_batch calls no active track is
   Terminated and no track, active or archived, has consecutive_misses
   greater than track_termination_threshold + 1 *)
C1_LifecycleBounds ==
    /\ \A t \in Range(active_tracks) : t.state # "terminated"
    /\ \A t \in AllTracks :
          t.consecutive_misses <= config.track_termination_threshold + 1

C1_Witness ==
    \E t \in Range(terminated_tracks) :
        /\ t.state = "terminated"
        /\ t.consecutive_misses = config.track_termination_threshold
        /\ \E u \in Range(active_tracks) : u.consecutive_misses > 0

----------------------------------------------------------------------------
(* the record a track has after the step, wherever the step left it *)
HasAfter(id) == DictHas(active_tracks', id) \/ DictHas(terminated_tracks', id)

After(id) ==
    IF DictHas(active_tracks', id) THEN DictGet(active_tracks', id)
    ELSE DictGet(terminated_tracks', id)

C2_Step ==
    config.coasting_threshold < config.track_termination_threshold =>
      \A t \in Range(active_tracks) :
        /\ HasAfter(t.track_id)
        /\ (t.state = "confirmed" /\ After(t.track_id).k = config.coasting_threshold)
              => /\ DictHas(active_tracks', t.track_id)
                 /\ After(t.track_id).state = "coasting"
        /\ (t.state \in {"confirmed", "coasting"}
              /\ After(t.track_id).k = config.track_termination_threshold)
              => /\ ~DictHas(active_tracks', t.track_id)
                 /\ DictHas(terminated_tracks', t.track_id)
                 /\ After(t.track_id).state = "terminated"
        /\ (t.state \in {"confirmed", "coasting"}
              /\ After(t.track_id).k < config.track_termination_threshold)
              => DictHas(active_tracks', t.track_id)

(* C2: a Confirmed track that goes k consecutive batches without an
   associated plot is Coasting at the end of the batch in which k reaches
   coasting_threshold, and is moved from active_tracks to terminated_tracks
   as Terminated at the end of the batch in which k reaches
   track_termination_threshold, not earlier (coasting_threshold <
   track_termination_threshold) *)
C2_CoastThenTerminate == [][C2_Step]_vars

C2_Witness ==
    /\ config.coasting_threshold < config.track_termination_threshold
    /\ \E t \in Range(active_tracks) :
          t.state = "coasting" /\ t.k = config.coasting_threshold
    /\ \E u \in Range(terminated_tracks) :
          /\ u.k = config.track_termination_threshold
          /\ u.plot_count >= config.track_confirmation_threshold

(* C3: at the end of every batch no active track is Tentative with
   plot_count >= track_confirmation_threshold *)
C3_NoRipeTentative ==
    \A t \in Range(active_tracks) :
        ~(t.state = "tentative"
          /\ t.plot_count >= config.track_confirmation_threshold)

C3_Witness ==
    \E t \in Range(active_tracks) :
        /\ t.state = "confirmed"
        /\ t.plot_count = config.track_confirmation_threshold
        /\ Len(t.associated_plots) >= 2
        /\ t.track_id \in last_updated

(* number of times plot_id p occurs in the associated_plots of the tracks of d *)
Occurrences(d, p) ==
    SeqSum([ i \in 1..Len(d) |->
               Cardinality({ j \in 1..Len(d[i].associated_plots) :
                               d[i].associated_plots[j] = p }) ])

PlotCountSum(d) == SeqSum([ i \in 1..Len(d) |-> d[i].plot_count ])

(* C4: with unique plot_ids, every processed plot_id occurs in the
   associated_plots of exactly one track, and the plot_counts of the active
   and terminated tracks add up to the number of plots processed *)
C4_EachPlotOnce ==
    /\ \A p \in 1..plots_fed :
          Occurrences(active_tracks, p) + Occurrences(terminated_tracks, p) = 1
    /\ PlotCountSum(active_tracks) + PlotCountSum(terminated_tracks) = plots_fed
    /\ stats.total_plots_processed = plots_fed

C4_Witness ==
    /\ plots_fed >= 3
    /\ \E t \in AllTracks : Len(t.associated_plots) >= 2
    /\ Cardinality(AllTracks) >= 2

(* C5: no two distinct tracks ever created are given the same track_id,
   under any sequence of process_plot_batch, reset_tracking and
   configure_tracker calls *)
C5_UniqueTrackIds ==
    \A i, j \in 1..Len(issued_ids) :
        i # j => issued_ids[i] # issued_ids[j]

Mutating(t) == thr[t].pc # "idle"

(* C6: executions of process_new_data (background worker, POST
   /api/tracks/process) and of reset_tracking (POST /api/tracks/reset) on
   the shared TrackIntegrator never overlap in time *)
C6_MutationSerialised ==
    \A t1, t2 \in DOMAIN thr :
        (Mutating(t1) /\ Mutating(t2)) => t1 = t2

(* C7: a reader in another thread never observes active_tracks in an
   intermediate state of process_plot_batch and never fails because the map
   changes size while it iterates *)
C7_BatchAtomicForReaders ==
    reader # << >> => (~reader.intermediate /\ ~reader.failed)

----------------------------------------------------------------------------
(* Block framing as the specification of the decoder states it: a payload is
   a concatenation of blocks, each starting with CAT and a 2-byte LEN >= 3
   that covers the block *)
RECURSIVE WellFramed(_)
WellFramed(payload) ==
    /\ Len(payload) >= 3
    /\ declared_length(payload) >= 3
    /\ declared_length(payload) <= Len(payload)
    /\ \/ declared_length(payload) = Len(payload)
       \/ WellFramed(Slice(payload, declared_length(payload)))

RECURSIVE BlocksOf(_)
BlocksOf(payload) ==
    IF payload = << >> THEN << >>
    ELSE << SubSeq(payload, 1, declared_length(payload)) >>
         \o BlocksOf(Slice(payload, declared_length(payload)))

(* a block of a supported category whose record fills the block exactly *)
WellFormedBlock(block) ==
    /\ block[1] \in supported_categories
    /\ LET t == process_cat_message(block[1], block)[1]
           ex == extract_fspec(Slice(block, 3))
       IN /\ Len(ex.fspec) >= 1
          /\ ~BitSet(ex.fspec[Len(ex.fspec)], 0)
          /\ Len(t.data_items) = Len(decode_fspec(ex.fspec, MappingOf(block[1])))
          /\ t.end_position = Len(block)

(* C8: no plot is returned for a payload whose declared LEN exceeds the
   payload, whose LEN is less than 3, or whose bytes after the first block
   cannot be parsed as another block *)
C8_MalformedFrameRejected ==
    (targets # Pending /\ Len(raw_data) >= 3 /\ ~WellFramed(raw_data))
        => targets = << >>

(* C9: a payload of N >= 1 well-formed concatenated blocks is decoded into N
   plots, one per block, in the order of the blocks *)
C9_OnePlotPerBlock ==
    (targets # Pending /\ WellFramed(raw_data)
       /\ \A i \in 1..Len(BlocksOf(raw_data)) : WellFormedBlock(BlocksOf(raw_data)[i]))
        => /\ Len(targets) = Len(BlocksOf(raw_data))
           /\ \A i \in 1..Len(targets) :
                targets[i].category = BlocksOf(raw_data)[i][1]

PresentItems(data, n, mapping) ==
    { mapping[o][b] : o \in 1..n, b \in 1..7 } \cap
    { it \in UNION { Range(mapping[o]) : o \in 1..Len(mapping) } :
        /\ it # ""
        /\ \E o \in 1..n, b \in 1..7 : mapping[o][b] = it /\ BitSet(data[o], 8 - b) }

UapIndex(mapping, it) ==
    CHOOSE x \in 1..(7 * Len(mapping)) :
        mapping[((x - 1) \div 7) + 1][((x - 1) % 7) + 1] = it

(* C10: _extract_fspec consumes the bytes up to and including the first byte
   with FX = 0 and never more than 4; _decode_fspec returns, in UAP order and
   without duplicates, exactly the items whose presence bits are set in the
   consumed bytes and that map to a UAP entry *)
C10_FspecExtractDecode ==
    fspec_out # << >> =>
      LET data == fspec_in.data
          n == fspec_out[1].position
          mapping == MappingOf(fspec_in.cat)
          items == fspec_out[1].items
      IN /\ n <= 4
         /\ n <= Len(data)
         /\ (Len(data) > 0 => n >= 1)
         /\ fspec_out[1].fspec = SubSeq(data, 1, n)
         /\ \A i \in 1..(n - 1) : BitSet(data[i], 0)
         /\ (n >= 1 /\ n < 4 /\ n < Len(data)) => ~BitSet(data[n], 0)
         /\ Range(items) = PresentItems(data, n, mapping)
         /\ \A i, j \in 1..Len(items) :
              i < j => UapIndex(mapping, items[i]) < UapIndex(mapping, items[j])

C10_Witness ==
    /\ fspec_out # << >>
    /\ fspec_out[1].position = 4
    /\ Len(fspec_in.data) > 4
    /\ BitSet(fspec_in.data[4], 0)
    /\ fspec_in.cat = 10
    /\ BitSet(fspec_in.data[4], 1)
    /\ Len(fspec_out[1].items) >= 2

(* the items the record yields when decoding stops at the first item that
   needs more bytes than remain *)
RECURSIVE ItemsBeforeShort(_, _, _, _)
ItemsBeforeShort(cat, raw, items_present, position) ==
    IF items_present = << >> \/ position >= Len(raw) THEN << >>
    ELSE LET r == parse_data_item(cat, Head(items_present), Slice(raw, position))
         IN IF ~r.ok THEN << >>
            ELSE << Head(items_present) >>
                 \o ItemsBeforeShort(cat, raw, Tail(items_present), position + r.length)

Accepted(raw) ==
    /\ Len(raw) >= 3
    /\ declared_length(raw) <= Len(raw)
    /\ raw[1] \in supported_categories

ItemCodes(data_items) == [ i \in 1..Len(data_items) |-> data_items[i].item ]

(* C11: when a present item needs more bytes than remain in the record, no
   later item of the record is decoded, and the plot is returned with
   exactly the items decoded before the short item *)
C11_ShortItemEndsRecord ==
    (targets # Pending /\ Accepted(raw_data)) =>
        /\ Len(targets) = 1
        /\ LET ex == extract_fspec(Slice(raw_data, 3))
               items_present == decode_fspec(ex.fspec, MappingOf(raw_data[1]))
           IN ItemCodes(targets[1].data_items)
                = ItemsBeforeShort(raw_data[1], raw_data, items_present, 3 + ex.position)

(* C12: process_asterix_message on the S1 input returns exactly one plot
   with category 48, range 10.5 NM (2688 / 256), azimuth 90 degrees
   (16384 * 360 / 65536) and mode_3a "1234" *)
C12_ScenarioS1 ==
    (targets # Pending /\ raw_data = S1_Input) =>
        /\ Len(targets) = 1
        /\ targets[1].category = 48
        /\ targets[1].range = << 2688 >>
        /\ targets[1].azimuth = << 16384 >>
        /\ targets[1].mode_3a = << << 1, 2, 3, 4 >> >>

Near(decoded, value) ==
    /\ decoded # << >>
    /\ decoded[1] - value <= 1
    /\ value - decoded[1] <= 1

(* C13: decoding a message built by create_cat48_message,
   create_cat10_message, create_cat21_message or by the test builders
   returns one target whose encoded fields are recovered to one LSB: range
   and azimuth for categories 48 and 10, signed latitude and longitude (and
   the 24-bit address the test builder adds) for category 21 *)
C13_BuilderRoundTrip ==
    (source_target # << >> /\ raw_data # << >> /\ targets # Pending) =>
        /\ Len(targets) = 1
        /\ targets[1].category = source_target.category
        /\ (source_target.category \in {10, 48}
              /\ source_target.range # 0 /\ source_target.azimuth # 0)
             => /\ Near(targets[1].range, source_target.range)
                /\ Near(targets[1].azimuth, source_target.azimuth)
        /\ (source_target.category = 21
              /\ source_target.latitude # 0 /\ source_target.longitude # 0)
             => /\ targets[1].wgs84 # << >>
                /\ Near(<< U24(SubSeq(targets[1].wgs84[1], 1, 3)) >>,
                        source_target.latitude)
                /\ Near(<< U24(SubSeq(targets[1].wgs84[1], 4, 6)) >>,
                        source_target.longitude)
        /\ (source_target.category = 21 /\ source_target.via = "test")
             => targets[1].aircraft_address = << source_target.address >>

(* C14: parse_klv_packet and validate_klv_packet accept every packet
   produced by track_to_klv_packet unchanged, and reject any such packet in
   which one payload byte has been altered *)
C14_KlvChecksumVerified ==
    (klv # << >> /\ klv.packet # << >>) =>
        /\ klv.parsed # << >> =>
             (klv.altered = 0 <=> klv.parsed[1].status = "metadata")
        /\ klv.valid # << >> =>
             (klv.altered = 0 <=> klv.valid[1])

IsValue(field) == field.has /\ ~field.none

(* a track with every field convert_track_to_cot reads *)
WellFormedTrack(track) ==
    /\ IsValue(track.track_id) /\ IsValue(track.type) /\ IsValue(track.status)
    /\ IsValue(track.latitude) /\ IsValue(track.longitude) /\ IsValue(track.altitude)
    /\ IsValue(track.speed) /\ IsValue(track.heading)
    /\ (track.callsign.has => ~track.callsign.none)

(* a dictionary as get_tracks_for_display builds it: 'callsign': None,
   altitude of the most recent plot or None *)
IsDisplayTrack(track) ==
    /\ IsValue(track.track_id) /\ IsValue(track.type) /\ IsValue(track.status)
    /\ IsValue(track.latitude) /\ IsValue(track.longitude) /\ track.altitude.has
    /\ IsValue(track.speed) /\ IsValue(track.heading)
    /\ track.callsign = NoneVal

(* C15: for every well-formed track, including every track dict returned
   by get_tracks_for_display, convert_track_to_cot yields a document for
   which validate_cot_xml is true and from which parse_cot_xml returns
   exactly one track with the same latitude, longitude, altitude, speed and
   heading *)
C15_CotRoundTrip ==
    (cot # << >> /\ cot.track # << >> /\ cot.doc # << >>
       /\ (WellFormedTrack(cot.track[1]) \/ IsDisplayTrack(cot.track[1])))
      => /\ cot.valid # << >> => cot.valid[1]
         /\ cot.parsed # << >> =>
              /\ Len(cot.parsed[1]) = 1
              /\ cot.parsed[1][1].latitude = cot.track[1].latitude.v
              /\ cot.parsed[1][1].longitude = cot.track[1].longitude.v
              /\ cot.parsed[1][1].altitude = cot.track[1].altitude
              /\ cot.parsed[1][1].speed = cot.track[1].speed
              /\ cot.parsed[1][1].heading = cot.track[1].heading

RequiredShape(doc) ==
    /\ doc.xml
    /\ doc.tag = "event"
    /\ EventAttrs \subseteq doc.attrs
    /\ doc.point # << >>
    /\ doc.point[1].lat # << >>
    /\ doc.point[1].lon # << >>

(* C16: validate_cot_xml (of CoTConverter and of CoTProcessor) returns true
   only for an event element carrying the attributes version, uid, type and
   time and a point child carrying lat and lon *)
C16_ValidateRejectsOtherShapes ==
    (cot # << >> /\ cot.doc # << >>) =>
        /\ (cot.valid # << >> /\ cot.valid[1]) => RequiredShape(cot.doc[1])
        /\ (cot.processor_valid # << >> /\ cot.processor_valid[1])
             => RequiredShape(cot.doc[1])

(* C17: two fresh TrackCalculator instances with equal configuration that are
   fed the same sequence of batches create tracks with identical track_ids in
   the same order of creation and associate every plot with the same
   track_id *)
C17_DeterministicAssociation ==
    pair # << >> =>
        /\ pair.a.issued = pair.b.issued
        /\ pair.log_a = pair.log_b

(* both instances created two tracks, associated a plot with an existing
   track and archived a track *)
C17_Witness ==
    /\ pair # << >>
    /\ Len(pair.a.issued) >= 2
    /\ Len(pair.b.issued) >= 2
    /\ Len(pair.log_a) > Len(pair.a.issued)
    /\ pair.a.terminated_tracks # << >>
    /\ pair.b.terminated_tracks # << >>

(* C18: feeding the plots of one target that moves on a straight line at a
   constant 100 m/s, 1 s apart, to a fresh TrackCalculator yields exactly one
   track, which is Confirmed once it has track_confirmation_threshold plots;
   no second track is initiated for that target *)
C18_StraightLineOneTrack ==
    (s3 # << >> /\ s3.fed >= 1) =>
        /\ Len(s3.T.issued) = 1
        /\ Len(s3.T.active_tracks) = 1
        /\ s3.T.active_tracks[1].plot_count >= LineConfig.track_confirmation_threshold
              => s3.T.active_tracks[1].state = "confirmed"

BlockedOn(s) == { t \in 1..Len(udp.loops) :
                    udp.loops[t].pc = "blocked" /\ udp.loops[t].sock = s }

(* C19: at most one receive-loop thread reads datagrams from a
   UDPAsterixReceiver's socket at any time, under every interleaving of
   start() and stop() calls, including stop() followed by start() before the
   previous loop has exited and start() called twice *)
C19_SingleReceiveLoop ==
    udp # << >> => \A s \in 1..udp.created : Cardinality(BlockedOn(s)) <= 1

AllLoopsExited == \A t \in 1..Len(udp.loops) : udp.loops[t].pc = "exited"

(* C20: after stop() is called on a running UDPAsterixReceiver, the receive
   loop eventually exits and hands no further datagram to the decoder *)
C20_StopEndsReceiveLoop ==
    /\ [](udp # << >> => udp.late = 0)
    /\ (udp # << >> /\ udp.stopped) ~> (udp.stopped => AllLoopsExited)

-----------------------------------------------------------------------------
(* Unsupported categories *)

Framed(raw) == Len(raw) >= 3 /\ declared_length(raw) <= Len(raw)

(* the counters of processing_stats that a decoded message of a supported
   category leaves alone: processing_errors is the only one *)
DropCount(st) == st.processing_errors

(* C21: a framed message whose category is not 10, 21 or 48 yields no plot and
   is counted as a drop: after it the decoder's drop counter is 1 *)
C21_UnsupportedCategoryCounted ==
    (targets # Pending /\ Framed(raw_data) /\ raw_data[1] \notin supported_categories)
        => (targets = << >> /\ DropCount(processing_stats) = 1)

(* the part of C21 that the decoder does satisfy: no plot, and the message is
   only counted as received *)
C21_UnsupportedCategoryReceived ==
    (targets # Pending /\ Framed(raw_data) /\ raw_data[1] \notin supported_categories)
        => /\ targets = << >>
           /\ processing_stats.total_messages = 1
           /\ processing_stats.messages_by_category[raw_data[1]] = 1
           /\ processing_stats.processing_errors = 0

-----------------------------------------------------------------------------
(* Derived position of polar plots *)

(* C22: every plot with a decoded polar position (I048/040, I010/040) has a
   derived latitude and longitude, and for range 0 it is the station origin *)
C22_PolarPlotHasLatLon ==
    targets # Pending =>
        \A i \in 1..Len(targets) :
            targets[i].range # << >> =>
                /\ targets[i].latlon # << >>
                /\ targets[i].range = << 0 >> => targets[i].latlon = << StationOrigin >>

(* the plots the decoder does give a derived position: both raw values
   non-zero; no plot with range 0 has one *)
C22_LatLonOnlyWhenBothNonZero ==
    targets # Pending =>
        \A i \in 1..Len(targets) :
            targets[i].range # << >> =>
                (targets[i].latlon # << >>
                    <=> (targets[i].range # << 0 >> /\ targets[i].azimuth # << 0 >>))

-----------------------------------------------------------------------------
(* Times of CoT events.  A datetime is [minutes, micros]: a reading of the
   clock plus whole minutes; cot is [clock, emitted, event] here. *)

(* datetime.utcnow() read at clock value t *)
utcnow(t) == [ minutes |-> 0, micros |-> t ]

(* dt + timedelta(minutes = m) *)
PlusMinutes(dt, m) == [ dt EXCEPT !.minutes = @ + m ]

(* _format_cot_time: '%Y-%m-%dT%H:%M:%S.%fZ' keeps every microsecond *)
format_cot_time(dt) == [ minutes |-> dt.minutes, micros |-> dt.micros ]

(* the clock values a call can read, in the order it reads them *)
Readings(from) ==
    { r \in (from..MaxClock) \X (from..MaxClock) \X (from..MaxClock) :
        r[1] <= r[2] /\ r[2] <= r[3] }

Emit(kind, time, start, stale, now) ==
    cot' = [ clock |-> now, emitted |-> cot.emitted + 1,
             event |-> << [ kind |-> kind, time |-> time,
                            start |-> start, stale |-> stale ] >> ]

CanEmit == cot # << >> /\ cot.emitted < MaxEvents

StaleOthersUnchanged ==
    UNCHANGED << source_target, klv, trackerVars, threadVars, decoderVars, fspecVars,
                 laterVars >>

(* CoTConverter.convert_track_to_cot: three readings of the clock *)
TrackEvent ==
    /\ CanEmit
    /\ \E r \in Readings(cot.clock) :
         Emit("track", format_cot_time(utcnow(r[1])), format_cot_time(utcnow(r[2])),
              format_cot_time(PlusMinutes(utcnow(r[3]), 5)), r[3])
    /\ StaleOthersUnchanged

(* ADSBCoTConverter.convert_adsb_to_cot *)
AdsbEvent ==
    /\ CanEmit
    /\ \E r \in Readings(cot.clock) :
         Emit("adsb", format_cot_time(utcnow(r[1])), format_cot_time(utcnow(r[2])),
              format_cot_time(PlusMinutes(utcnow(r[3]), 2)), r[3])
    /\ StaleOthersUnchanged

(* CoTConverter.create_cot_chat_message *)
ChatEvent ==
    /\ CanEmit
    /\ \E r \in Readings(cot.clock) :
         Emit("chat", format_cot_time(utcnow(r[1])), format_cot_time(utcnow(r[2])),
              format_cot_time(PlusMinutes(utcnow(r[3]), 60)), r[3])
    /\ StaleOthersUnchanged

(* CoTProcessor.track_to_cot_xml: one reading, stale 300 s later *)
ProcessorTrackEvent ==
    /\ CanEmit
    /\ \E now \in cot.clock..MaxClock :
         LET time_str == format_cot_time(utcnow(now))
         IN Emit("processor_track", time_str, time_str,
                 format_cot_time(PlusMinutes(utcnow(now), 5)), now)
    /\ StaleOthersUnchanged

(* CoTProcessor.create_heartbeat_message: one reading *)
HeartbeatEvent ==
    /\ CanEmit
    /\ \E now \in cot.clock..MaxClock :
         LET time_str == format_cot_time(utcnow(now))
         IN Emit("heartbeat", time_str, time_str, time_str, now)
    /\ StaleOthersUnchanged

InitStale ==
    /\ cot = [ clock |-> 0, emitted |-> 0, event |-> << >> ]
    /\ source_target = << >>
    /\ klv = << >>
    /\ IdleLater
    /\ IdleTracker
    /\ IdleThreads
    /\ IdleDecoder
    /\ IdleFspec

NextStale == TrackEvent \/ AdsbEvent \/ ChatEvent \/ ProcessorTrackEvent \/ HeartbeatEvent

SpecStale == InitStale /\ [][NextStale]_vars

(* stale minus time, as [minutes, micros] *)
StaleMinusTime(e) ==
    [ minutes |-> e.stale.minutes - e.time.minutes,
      micros |-> e.stale.micros - e.time.micros ]

Lifetime(kind) ==
    IF kind \in { "track", "processor_track" } THEN 5
    ELSE IF kind = "adsb" THEN 2
    ELSE IF kind = "chat" THEN 60
    ELSE 0

(* C23: in every emitted event stale minus time is exactly 5 minutes for a
   track event, 2 minutes for an ADS-B event, 1 hour for a chat message and 0
   for a heartbeat *)
C23_ExactStale ==
    (cot # << >> /\ cot.event # << >>) =>
        StaleMinusTime(cot.event[1]) =
            [ minutes |-> Lifetime(cot.event[1].kind), micros |-> 0 ]

(* what the events do satisfy: the lifetime plus the time the clock advanced
   while the event was built, which is 0 for the events of CoTProcessor *)
C23_StaleAtLeastLifetime ==
    (cot # << >> /\ cot.event # << >>) =>
        LET e == cot.event[1]
        IN /\ StaleMinusTime(e).minutes = Lifetime(e.kind)
           /\ StaleMinusTime(e).micros >= 0
           /\ e.kind \in { "processor_track", "heartbeat" } => StaleMinusTime(e).micros = 0

-----------------------------------------------------------------------------
(* Misses per batch *)

C24_Step ==
    \A t \in Range(active_tracks') :
        /\ t.track_id \in last_updated' => t.consecutive_misses = 0
        /\ (t.track_id \notin last_updated' /\ DictHas(active_tracks, t.track_id))
              => t.consecutive_misses =
                    DictGet(active_tracks, t.track_id).consecutive_misses + 1

(* C24: at the end of each batch every active track that no plot of the batch
   was associated with has consecutive_misses one greater than before the
   batch, and every track a plot of the batch was associated with has
   consecutive_misses 0 *)
C24_MissesPerBatch == [][C24_Step]_vars

C24_Witness ==
    \E t, u \in Range(active_tracks) :
        /\ t.track_id \notin last_updated
        /\ t.consecutive_misses = 2
        /\ u.track_id \in last_updated
        /\ u.consecutive_misses = 0
        /\ u.plot_count >= 2

-----------------------------------------------------------------------------
(* Order of the track states *)

(* TrackState in the order Tentative, Confirmed, Coasting, Terminated *)
StateRank(state) ==
    IF state = "tentative" THEN 1
    ELSE IF state = "confirmed" THEN 2
    ELSE IF state = "coasting" THEN 3
    ELSE 4

C25_Step ==
    /\ \A t \in Range(active_tracks) :
          /\ HasAfter(t.track_id)
          /\ StateRank(After(t.track_id).state) >= StateRank(t.state)
          /\ (t.state = "coasting" /\ t.track_id \in last_updated')
                => /\ DictHas(active_tracks', t.track_id)
                   /\ After(t.track_id).state = "coasting"
                   /\ After(t.track_id).consecutive_misses = 0
    /\ \A u \in Range(terminated_tracks) :
          /\ ~DictHas(active_tracks', u.track_id)
          /\ DictHas(terminated_tracks', u.track_id)
          /\ DictGet(terminated_tracks', u.track_id).state = "terminated"

(* C25: a track's state never moves backward in the order Tentative,
   Confirmed, Coasting, Terminated; a Coasting track that a plot is
   associated with has consecutive_misses 0 and stays Coasting, and a
   Terminated track never re-enters active_tracks *)
C25_StateNeverBackward == [][C25_Step]_vars

C25_Witness ==
    /\ \E t \in Range(active_tracks) :
          /\ t.state = "coasting"
          /\ t.track_id \in last_updated
          /\ t.consecutive_misses = 0
          /\ t.plot_count >= 2
    /\ \E u \in Range(terminated_tracks) : u.state = "terminated"

-----------------------------------------------------------------------------
(* Termination of parse_klv_packet *)

(* C26: parse_klv_packet returns a dictionary for every packet that starts
   with a recognised Universal Key, a corrupted Local Set included: the item
   loop of the parser ends *)
C26_ParseTerminates ==
    (klv # << >> /\ klv.parsed # << >>
       /\ Len(klv.packet) >= 16
       /\ SubSeq(klv.packet, 1, 16) \in { UAS_DATALINK_LS_UL, VMTI_LS_UL })
        => klv.parsed[1].status # "hangs"

(* the packets the parser does return for: those in which every item of the
   Local Set has a complete key and length *)
C26_ParseOfUnalteredTerminates ==
    (klv # << >> /\ klv.parsed # << >> /\ klv.altered = 0)
        => klv.parsed[1].status = "metadata"

-----------------------------------------------------------------------------
(* Association gates.  For one plot, each track has the verdicts of the
   three tests the code makes: position_distance <= _get_association_gate,
   mahalanobis_dist <= pda_gate_threshold, azimuth_diff <=
   max_azimuth_difference (with a non-empty azimuth_history), and a score. *)

(* a score between the two thresholds as well *)
GateScoreVals == ScoreVals \cup {30}

Verdicts == [ d_pos_in : BOOLEAN, d_M_in : BOOLEAN, az_in : BOOLEAN, score : GateScoreVals ]

GatePlot == [ plot_id |-> 1, timestamp |-> 0 ]

(* a track after its first plot, and a mature confirmed track *)
GateTrackShapes(id) ==
    { NewTrack(id, [ plot_id |-> 0, timestamp |-> 0 ]),
      [ NewTrack(id, [ plot_id |-> 0, timestamp |-> 0 ]) EXCEPT
          !.state = "confirmed", !.plot_count = 9,
          !.course_len = MatureCourseLen, !.quality_score = 80 ] }

GateTrackLists ==
    UNION { { tr \in [ 1..n -> UNION { GateTrackShapes(id) : id \in 1..n } ] :
                \A i \in 1..n : tr[i].track_id = i } : n \in 1..MaxGateTracks }

(* _find_course_association_candidates keeps the tracks inside the position
   gate; the fallback keeps the tracks inside the azimuth gate when
   use_azimuth_correlation is set and inside the statistical gate otherwise *)
GateNumerics(verdicts, use_azimuth_correlation) ==
    [ course |-> [ i \in 1..Len(verdicts) |->
                     IF verdicts[i].d_pos_in THEN verdicts[i].score ELSE NoCand ],
      fallback |-> [ i \in 1..Len(verdicts) |->
                       IF use_azimuth_correlation
                       THEN (IF verdicts[i].az_in THEN verdicts[i].score ELSE NoCand)
                       ELSE (IF verdicts[i].d_M_in THEN verdicts[i].score ELSE NoCand) ],
      speed |-> "cruise" ]

(* the candidates _process_single_plot hands to
   _select_best_course_association, as indices into active_tracks *)
CandidatesOf(T, num) ==
    LET course == find_course_association_candidates(T, num)
        candidates == IF course = << >>
                      THEN find_azimuth_association_candidates(T, num)
                      ELSE course
    IN { candidates[j][1] : j \in 1..Len(candidates) }

ProcessSinglePlotGated ==
    /\ gate # << >>
    /\ ~gate.decided
    /\ LET num == GateNumerics(gate.verdicts, gate.use_azimuth_correlation)
           r == process_single_plot(gate.T, GatePlot, num)
       IN gate' = [ gate EXCEPT !.decided = TRUE,
                                !.tracks = gate.T.active_tracks,
                                !.T = r.T,
                                !.candidates = CandidatesOf(gate.T, num),
                                !.associated = r.assoc ]
    /\ UNCHANGED << trackerVars, threadVars, decoderVars, fspecVars,
                    source_target, klv, cot, pair, s3, udp, td >>

InitGate ==
    /\ \E tracks \in GateTrackLists :
         \E v \in [ 1..Len(tracks) -> Verdicts ], az \in BOOLEAN :
            gate = [ T |-> Tracker(tracks, << >>, ZeroStats, << >>),
                     tracks |-> tracks, use_azimuth_correlation |-> az, verdicts |-> v,
                     decided |-> FALSE, candidates |-> {}, associated |-> 0 ]
    /\ IdleTracker
    /\ IdleThreads
    /\ IdleDecoder
    /\ IdleFspec
    /\ source_target = << >>
    /\ klv = << >>
    /\ cot = << >>
    /\ pair = << >>
    /\ s3 = << >>
    /\ udp = << >>
    /\ td = << >>

NextGate == ProcessSinglePlotGated

SpecGate == InitGate /\ [][NextGate]_vars

PassesBothGates(v) == v.d_M_in /\ v.d_pos_in

(* C27: a track is an association candidate for the plot if and only if its
   Mahalanobis distance is at most pda_gate_threshold and its position
   residual is at most its dynamic gate, and the plot is never associated
   with a track that fails either gate *)
C27_BothGates ==
    (gate # << >> /\ gate.decided) =>
        /\ \A i \in 1..Len(gate.verdicts) :
              i \in gate.candidates <=> PassesBothGates(gate.verdicts[i])
        /\ gate.associated # 0 => PassesBothGates(gate.verdicts[gate.associated])

(* the gates the code does apply: the position gate alone when any track is
   inside it, otherwise the azimuth gate or the statistical gate alone *)
C27_OneGatePerPass ==
    (gate # << >> /\ gate.decided) =>
        LET v == gate.verdicts
            inPos == { i \in 1..Len(v) : v[i].d_pos_in }
        IN /\ gate.candidates =
                 IF inPos # {} THEN inPos
                 ELSE IF gate.use_azimuth_correlation
                      THEN { i \in 1..Len(v) : v[i].az_in }
                      ELSE { i \in 1..Len(v) : v[i].d_M_in }
           /\ gate.associated # 0 => gate.associated \in gate.candidates

-----------------------------------------------------------------------------
(* Tracks initiated during a batch *)

(* the track_ids of the tracks initiated by the step *)
InitiatedNow ==
    (Keys(active_tracks') \cup Keys(terminated_tracks'))
        \ (Keys(active_tracks) \cup Keys(terminated_tracks))

C28_Step ==
    \A id \in InitiatedNow :
        After(id).plot_count = 1 =>
            /\ id \notin last_updated'
            /\ After(id).consecutive_misses = 1
            /\ IF config.track_termination_threshold = 1
               THEN /\ DictHas(terminated_tracks', id)
                    /\ After(id).state = "terminated"
               ELSE DictHas(active_tracks', id)

(* C28: a track initiated during a batch, unless a later plot of the batch is
   associated with it, has consecutive_misses 1 when the batch ends, and is
   terminated in that batch when track_termination_threshold is 1 *)
C28_NewTrackAgedInItsBatch == [][C28_Step]_vars

C28_Witness ==
    /\ config.track_termination_threshold = 1
    /\ \E u \in Range(terminated_tracks) :
          /\ u.state = "terminated"
          /\ u.plot_count = 1
          /\ u.consecutive_misses = 1
    /\ \E t \in Range(active_tracks) :
          /\ t.track_id \in last_updated
          /\ t.consecutive_misses = 0

-----------------------------------------------------------------------------
(* Selection among the candidates *)

(* the highest-scoring candidate, the first in dictionary order among equals *)
Highest(cands, v) ==
    CHOOSE i \in cands :
        \A j \in cands : v[j].score < v[i].score \/ (v[j].score = v[i].score /\ i <= j)

s_min(track) == IF IsMature(track) THEN MatureThreshold ELSE NewThreshold

InitiatedTentative(g) ==
    /\ Len(g.T.active_tracks) = Len(g.tracks) + 1
    /\ g.T.active_tracks[Len(g.T.active_tracks)].state = "tentative"
    /\ g.T.active_tracks[Len(g.T.active_tracks)].associated_plots = << GatePlot.plot_id >>
    /\ \A i \in 1..Len(g.tracks) : g.T.active_tracks[i] = g.tracks[i]

(* C29: the plot is associated with the highest-scoring candidate if and only
   if that candidate's score is at least s_min (0.4 for a track with at least
   3 course_history entries and quality_score > 0.7, 0.2 otherwise); in every
   other case, also when a lower-ranked candidate reaches its own threshold,
   the plot initiates a new Tentative track *)
C29_BestOrNewTrack ==
    (gate # << >> /\ gate.decided) =>
        IF gate.candidates = {} THEN gate.associated = 0 /\ InitiatedTentative(gate)
        ELSE LET best == Highest(gate.candidates, gate.verdicts)
             IN IF gate.verdicts[best].score >= s_min(gate.tracks[best])
                THEN /\ gate.associated = best
                     /\ Len(gate.T.active_tracks) = Len(gate.tracks)
                     /\ gate.T.active_tracks[best].plot_count
                           = gate.tracks[best].plot_count + 1
                ELSE gate.associated = 0 /\ InitiatedTentative(gate)

(* the best candidate is a mature track below 0.4, a lower-ranked candidate
   reaches its own threshold, and the plot initiated a new track *)
C29_Witness ==
    /\ gate # << >>
    /\ gate.decided
    /\ Cardinality(gate.candidates) = 2
    /\ LET best == Highest(gate.candidates, gate.verdicts)
       IN /\ IsMature(gate.tracks[best])
          /\ gate.verdicts[best].score = 30
          /\ \E j \in gate.candidates \ {best} :
                /\ gate.verdicts[j].score = 20
                /\ ~IsMature(gate.tracks[j])
          /\ gate.associated = 0
          /\ InitiatedTentative(gate)

-----------------------------------------------------------------------------
(* Unconfirmed tentative tracks under the default thresholds *)

(* TrackCalculator(create_default_config()): confirmation after 2 plots,
   termination after 15 misses *)
InitTentative ==
    /\ active_tracks = << >>
    /\ terminated_tracks = << >>
    /\ stats = ZeroStats
    /\ config = LineConfig
    /\ plots_fed = 0
    /\ issued_ids = << >>
    /\ last_updated = {}
    /\ IdleThreads
    /\ IdleDecoder
    /\ IdleFspec
    /\ IdleOthers

NextTentative == ProcessPlotBatch

SpecTentative == InitTentative /\ [][NextTentative]_vars

UnconfirmedAtLimit(t) ==
    /\ t.state = "tentative"
    /\ t.plot_count < config.track_confirmation_threshold
    /\ t.consecutive_misses >= TentativeMissLimit

C30_Step ==
    \A t \in Range(active_tracks) :
        (t.state = "tentative"
            /\ t.plot_count < config.track_confirmation_threshold
            /\ t.track_id \notin last_updated'
            /\ t.consecutive_misses + 1 >= TentativeMissLimit)
          => /\ ~DictHas(active_tracks', t.track_id)
             /\ DictHas(terminated_tracks', t.track_id)
             /\ DictGet(terminated_tracks', t.track_id).state = "terminated"

(* C30: at the end of every batch no active track is Tentative with
   plot_count < track_confirmation_threshold and consecutive_misses >= 7;
   such a track is moved to terminated_tracks in that batch, also when
   track_termination_threshold is greater than 7 *)
C30_UnconfirmedTentativeEnds ==
    /\ [](\A t \in Range(active_tracks) : ~UnconfirmedAtLimit(t))
    /\ [][C30_Step]_vars

C30_Witness ==
    /\ config.track_termination_threshold > TentativeMissLimit
    /\ \E u \in Range(terminated_tracks) :
          /\ u.state = "terminated"
          /\ u.plot_count < config.track_confirmation_threshold
          /\ u.consecutive_misses = TentativeMissLimit
    /\ \E t \in Range(active_tracks) :
          t.consecutive_misses > 0 /\ t.state = "confirmed"


\* ======================================================================
\* Multi-sensor fusion on one track (track_calculator.py: _fuse_sensor_data)
\* ======================================================================

\* the largest plot timestamp, in units of sensor_time_threshold
MaxFuseTime == 2

\* the number of plots fed to the track
MaxFusePlots == 3

SensorTypes == { "radar", "adsb", "unknown" }

\* plot.quality in tenths
FuseQualities == { 5, 10 }

FusePlots ==
    [ sensor_type : SensorTypes, timestamp : 0..MaxFuseTime, quality : FuseQualities ]

(* type_weights.get(plot.sensor_type, 0.5), in tenths *)
type_weight(sensor_type) ==
    CASE sensor_type = "radar"     -> 10
      [] sensor_type = "adsb"      -> 9
      [] sensor_type = "secondary" -> 8
      [] sensor_type = "optical"   -> 7
      [] OTHER                     -> 5

(* np.exp(-time_diff / sensor_time_threshold) in thousandths; time_diff is
   an integer number of thresholds between -MaxFuseTime and MaxFuseTime *)
time_decay(time_diff) ==
    CASE time_diff = -2 -> 7389
      [] time_diff = -1 -> 2718
      [] time_diff = 0  -> 1000
      [] time_diff = 1  -> 368
      [] OTHER          -> 135

(* _fuse_sensor_data: the track after the call and the returned weight
   (quality tenths x type tenths x decay thousandths).  last_sensor_update
   of the plot's type is assigned before the decay reads it. *)
fuse_sensor_data(track, plot, sensor_fusion_enabled) ==
    IF ~sensor_fusion_enabled
    THEN [ track |-> track, fusion_weight |-> 100000 ]
    ELSE LET stamped == [ track EXCEPT
                 !.sensor_sources = @ \cup { plot.sensor_type },
                 !.last_sensor_update[plot.sensor_type] = << plot.timestamp >> ]
             base_weight == plot.quality
             time_weight ==
                 IF stamped.last_sensor_update[plot.sensor_type] # << >>
                 THEN time_decay(plot.timestamp
                                 - stamped.last_sensor_update[plot.sensor_type][1])
                 ELSE 1000
             fusion_weight == base_weight * type_weight(plot.sensor_type) * time_weight
         IN  [ track |-> [ stamped EXCEPT !.sensor_weights[plot.sensor_type] =
                                               << fusion_weight >> ],
               fusion_weight |-> fusion_weight ]

FuseOthersUnchanged ==
    UNCHANGED << trackerVars, threadVars, decoderVars, fspecVars,
                 source_target, klv, cot, pair, s3, udp, gate >>

(* _initiate_new_track: the TrackData fields of the new track; the sensor
   fields keep their dataclass defaults *)
InitiateFusedTrack ==
    \E plot \in FusePlots :
        /\ td.track = << >>
        /\ td' = [ td EXCEPT
               !.track = << [ plot_count |-> 1,
                              associated_plots |-> << plot >>,
                              sensor_sources |-> {},
                              sensor_weights |-> [ t \in SensorTypes |-> << >> ],
                              last_sensor_update |-> [ t \in SensorTypes |-> << >> ] ] >> ]
        /\ FuseOthersUnchanged

(* _associate_plot_to_track: the fusion call, the plot bookkeeping and the
   sensor_fusions counter *)
AssociateFusedPlot ==
    \E plot \in FusePlots :
        /\ td.track # << >>
        /\ td.track[1].plot_count < MaxFusePlots
        /\ LET fused == fuse_sensor_data(td.track[1], plot, td.sensor_fusion_enabled)
               track == [ fused.track EXCEPT
                              !.plot_count = @ + 1,
                              !.associated_plots = Append(@, plot) ]
           IN  td' = [ td EXCEPT
                   !.track = << track >>,
                   !.before = << td.track[1] >>,
                   !.fusion_weight = << fused.fusion_weight >>,
                   !.sensor_fusions =
                       IF Cardinality(track.sensor_sources) > 1 THEN @ + 1 ELSE @ ]
        /\ FuseOthersUnchanged

InitFusion ==
    /\ td \in [ sensor_fusion_enabled : BOOLEAN, track : { << >> },
                before : { << >> }, fusion_weight : { << >> }, sensor_fusions : { 0 } ]
    /\ pair = << >>
    /\ s3 = << >>
    /\ udp = << >>
    /\ gate = << >>
    /\ source_target = << >>
    /\ klv = << >>
    /\ cot = << >>
    /\ IdleTracker
    /\ IdleThreads
    /\ IdleDecoder
    /\ IdleFspec

NextFusion == InitiateFusedTrack \/ AssociateFusedPlot

SpecFusion == InitFusion /\ [][NextFusion]_vars

PlotTypes(plots) == { plots[i].sensor_type : i \in 1..Len(plots) }

(* C31: with sensor fusion enabled, a track's sensor_sources equals the set
   of sensor types of all plots in its associated_plots, the initiating
   plot included, and the set never shrinks *)
C31_SourcesOfAllPlots ==
    (td # << >> /\ td.track # << >> /\ td.sensor_fusion_enabled) =>
        td.track[1].sensor_sources = PlotTypes(td.track[1].associated_plots)

(* what the code keeps: sensor_sources is the set of sensor types of the
   plots associated after the initiating one, and it never shrinks *)
C31_SourcesOfLaterPlots ==
    /\ [](td # << >> /\ td.track # << >> /\ td.sensor_fusion_enabled =>
             td.track[1].sensor_sources
                 = PlotTypes(Tail(td.track[1].associated_plots)))
    /\ [][td # << >> /\ td.track # << >> /\ td'.track # << >> =>
             td.track[1].sensor_sources \subseteq td'.track[1].sensor_sources]_vars

(* C32: the fusion weight of an associated plot is quality x type_weight x
   time_decay, with time_decay computed from the time elapsed since the
   previous plot of the same sensor type on that track *)
C32_DecaySincePreviousPlot ==
    (td # << >> /\ td.fusion_weight # << >> /\ td.sensor_fusion_enabled) =>
        LET plot == td.track[1].associated_plots[td.track[1].plot_count]
            previous == td.before[1].last_sensor_update[plot.sensor_type]
        IN  td.fusion_weight[1] =
                plot.quality * type_weight(plot.sensor_type)
                    * (IF previous # << >>
                       THEN time_decay(plot.timestamp - previous[1])
                       ELSE 1000)

(* what the code computes: the elapsed time is always 0, so the weight is
   quality x type_weight whatever the gap *)
C32_NoDecay ==
    (td # << >> /\ td.fusion_weight # << >> /\ td.sensor_fusion_enabled) =>
        LET plot == td.track[1].associated_plots[td.track[1].plot_count]
        IN  td.fusion_weight[1] = plot.quality * type_weight(plot.sensor_type) * 1000

\* ======================================================================
\* Kalman update and kinematics of one track, on one axis
\* (track_calculator.py: _update_kalman_filter, _calculate_kinematics)
\* ======================================================================
\* The state vector is [position, velocity, acceleration] along x; the y
\* rows of the source's matrices are the same with y for x.  Values are
\* integers (metres, seconds); quotients are rounded down.

\* the number of plots associated with the track
MaxKalmanPlots == 3

\* create_default_config: process_noise_std ** 2, acceleration_noise_std ** 2,
\* measurement_noise_std ** 2, max_speed_threshold, min_speed_threshold
process_noise_sq == 225
acceleration_noise_sq == 25
default_measurement_noise_sq == 625
max_speed_threshold == 400
min_speed_threshold == 5

\* the discrepancy above which the position-based speed replaces the filter's
speed_discrepancy == 50

\* covariance_matrix = np.eye(6) * 1000 at initiation
initial_variance == 1000

KalmanConfigs == [ measurement_noise_sq : { 0, default_measurement_noise_sq } ]

\* seconds between a plot and the track's last position
KalmanGaps == { 0, 2 }

\* measured x of a plot, metres
KalmanPositions == { 0, 100, 8000 }

Dim == 1..3

MatMul(A, B) ==
    [ i \in Dim |-> [ j \in Dim |-> A[i][1] * B[1][j] + A[i][2] * B[2][j]
                                       + A[i][3] * B[3][j] ] ]

MatAdd(A, B) == [ i \in Dim |-> [ j \in Dim |-> A[i][j] + B[i][j] ] ]

Transpose(A) == [ i \in Dim |-> [ j \in Dim |-> A[j][i] ] ]

MatVec(A, v) == [ i \in Dim |-> A[i][1] * v[1] + A[i][2] * v[2] + A[i][3] * v[3] ]

(* state transition matrix, constant acceleration model *)
F(dt) ==
    << << 1, dt, (dt * dt) \div 2 >>,
       << 0, 1,  dt >>,
       << 0, 0,  1 >> >>

(* process noise covariance, with the acceleration noise added to its
   acceleration block *)
Q(dt) ==
    << << ((dt * dt * dt * dt) \div 4) * process_noise_sq,
          ((dt * dt * dt) \div 2) * process_noise_sq,
          ((dt * dt) \div 2) * process_noise_sq >>,
       << ((dt * dt * dt) \div 2) * process_noise_sq,
          (dt * dt) * process_noise_sq,
          dt * process_noise_sq >>,
       << ((dt * dt) \div 2) * process_noise_sq,
          dt * process_noise_sq,
          process_noise_sq + acceleration_noise_sq >> >>

predicted_state(track, dt) == MatVec(F(dt), track.state_vector)

predicted_covariance(track, dt) ==
    MatAdd(MatMul(MatMul(F(dt), track.covariance_matrix), Transpose(F(dt))), Q(dt))

(* H @ predicted_covariance @ H.T + R, with H observing the position *)
innovation_covariance(track, dt, cfg, fusion_weight) ==
    predicted_covariance(track, dt)[1][1] + cfg.measurement_noise_sq \div fusion_weight

(* np.linalg.inv raises LinAlgError on a singular matrix *)
IsSingular(S) == S = 0

(* the except branch of _update_kalman_filter *)
kalman_fallback(track, dt) ==
    [ track EXCEPT !.state_vector = predicted_state(track, dt),
                   !.covariance_matrix = predicted_covariance(track, dt) ]

(* _update_kalman_filter: dt is the time since position_history[-1] *)
update_kalman_filter(track, x, timestamp, fusion_weight, cfg) ==
    LET dt == timestamp - track.position_history[Len(track.position_history)][2]
        xp == predicted_state(track, dt)
        Pp == predicted_covariance(track, dt)
        innovation == x - xp[1]
        S  == innovation_covariance(track, dt, cfg, fusion_weight)
    IN  IF IsSingular(S)
        THEN kalman_fallback(track, dt)
        ELSE [ track EXCEPT
                 !.state_vector = [ i \in Dim |-> xp[i] + (Pp[i][1] * innovation) \div S ],
                 !.covariance_matrix =
                     [ i \in Dim |-> [ j \in Dim |->
                           Pp[i][j] - (Pp[i][1] * Pp[1][j]) \div S ] ] ]

(* _calculate_kinematics: the filter's speed, replaced by the speed between
   the last two positions when the two differ by more than 50 m/s *)
calculate_kinematics(track) ==
    IF Len(track.position_history) < 2
    THEN track
    ELSE LET n  == Len(track.position_history)
             p1 == track.position_history[n - 1]
             p2 == track.position_history[n]
             dt == p2[2] - p1[2]
             kalman_speed == Abs(track.state_vector[2])
             speed_check  == Abs(p2[1] - p1[1]) \div dt
         IN  [ track EXCEPT !.speed_ms =
                   IF dt > 0 /\ Abs(speed_check - kalman_speed) > speed_discrepancy
                   THEN speed_check
                   ELSE kalman_speed ]

KalmanOthersUnchanged ==
    UNCHANGED << trackerVars, threadVars, decoderVars, fspecVars,
                 source_target, klv, cot, pair, s3, udp, gate >>

(* _initiate_new_track: state [x, 0, 0], covariance eye * 1000, one position *)
InitiateKalmanTrack ==
    \E x \in KalmanPositions :
        /\ td.track = << >>
        /\ td' = [ td EXCEPT !.track =
               << [ state_vector |-> << x, 0, 0 >>,
                    covariance_matrix |->
                        [ i \in Dim |-> [ j \in Dim |->
                              IF i = j THEN initial_variance ELSE 0 ] ],
                    position_history |-> << << x, 0 >> >>,
                    plot_count |-> 1,
                    speed_ms |-> 0 ] >> ]
        /\ KalmanOthersUnchanged

(* _associate_plot_to_track: the filter update, the position history and
   the kinematics (fusion disabled: weight 1.0) *)
AssociateKalmanPlot ==
    \E x \in KalmanPositions, gap \in KalmanGaps :
        /\ td.track # << >>
        /\ td.track[1].plot_count < MaxKalmanPlots
        /\ LET before    == td.track[1]
               timestamp == before.position_history[Len(before.position_history)][2] + gap
               updated   == update_kalman_filter(before, x, timestamp, 1, td.config)
               stored    == [ updated EXCEPT
                                !.position_history = Append(@, << x, timestamp >>),
                                !.plot_count = @ + 1 ]
           IN  td' = [ td EXCEPT
                   !.track = << calculate_kinematics(stored) >>,
                   !.before = << before >>,
                   !.dt = gap,
                   !.singular =
                       IsSingular(innovation_covariance(before, gap, td.config, 1)) ]
        /\ KalmanOthersUnchanged

InitKalman ==
    /\ td \in [ config : KalmanConfigs, track : { << >> }, before : { << >> },
                dt : { 0 }, singular : { FALSE } ]
    /\ pair = << >>
    /\ s3 = << >>
    /\ udp = << >>
    /\ gate = << >>
    /\ source_target = << >>
    /\ klv = << >>
    /\ cot = << >>
    /\ IdleTracker
    /\ IdleThreads
    /\ IdleDecoder
    /\ IdleFspec

NextKalman == InitiateKalmanTrack \/ AssociateKalmanPlot

SpecKalman == InitKalman /\ [][NextKalman]_vars

(* C33: when the innovation covariance cannot be inverted during a Kalman
   update, the track's state vector becomes the predicted state and its
   covariance matrix is left as it was before the update *)
C33_CovarianceKept ==
    (td # << >> /\ td.singular) =>
        /\ td.track[1].state_vector = predicted_state(td.before[1], td.dt)
        /\ td.track[1].covariance_matrix = td.before[1].covariance_matrix

(* what the code does: both the state and the covariance become the
   predicted ones *)
C33_PredictedStateAndCovariance ==
    (td # << >> /\ td.singular) =>
        /\ td.track[1].state_vector = predicted_state(td.before[1], td.dt)
        /\ td.track[1].covariance_matrix = predicted_covariance(td.before[1], td.dt)

(* C38: every track's speed_ms stays within [0, max_speed_threshold] after
   any sequence of associations *)
C38_SpeedWithinThreshold ==
    (td # << >> /\ td.track # << >>) =>
        /\ td.track[1].speed_ms >= 0
        /\ td.track[1].speed_ms <= max_speed_threshold

(* what the code keeps: speed_ms is never negative *)
C38_SpeedNonNegative ==
    (td # << >> /\ td.track # << >>) => td.track[1].speed_ms >= 0

\* ======================================================================
\* Statistics against the two track maps
\* ======================================================================

(* C34: after any sequence of process_plot_batch calls, tracks_initiated
   equals len(active_tracks) + len(terminated_tracks), tracks_terminated
   equals len(terminated_tracks), tracks_confirmed is at most
   tracks_initiated, and no track_id is in both maps *)
C34_StatsMatchMaps ==
    /\ stats.tracks_initiated = Len(active_tracks) + Len(terminated_tracks)
    /\ stats.tracks_terminated = Len(terminated_tracks)
    /\ stats.tracks_confirmed <= stats.tracks_initiated
    /\ Keys(active_tracks) \cap Keys(terminated_tracks) = {}

C34_Witness ==
    /\ Len(active_tracks) >= 1
    /\ Len(terminated_tracks) >= 1
    /\ stats.tracks_confirmed >= 1
    /\ stats.tracks_confirmed < stats.tracks_initiated

\* ======================================================================
\* Item reads against the declared block length
\* ======================================================================

(* the offset just after the last byte an item was decoded from *)
ItemEnd(it) == it.at + it.length

(* C35: no item value in a returned plot is decoded from bytes located at or
   after offset LEN of the block: item reads are bounded by the declared
   block length, not by the length of the payload *)
C35_ItemsWithinDeclaredLength ==
    targets # Pending =>
        \A i \in 1..Len(targets) :
            \A k \in 1..Len(targets[i].data_items) :
                ItemEnd(targets[i].data_items[k]) <= declared_length(raw_data)

(* what the decoder keeps: items are read within the payload *)
C35_ItemsWithinPayload ==
    targets # Pending =>
        \A i \in 1..Len(targets) :
            \A k \in 1..Len(targets[i].data_items) :
                ItemEnd(targets[i].data_items[k]) <= Len(raw_data)

\* ======================================================================
\* Candidates with the same highest score
\* ======================================================================

(* the candidates whose score equals that of the associated track *)
TiedWith(g, i) == { j \in g.candidates : g.verdicts[j].score = g.verdicts[i].score }

(* track j is inside the statistical gate and track i is not: the
   Mahalanobis distance of j is at most pda_gate_threshold, that of i above *)
LowerMahalanobis(v, j, i) == v[j].d_M_in /\ ~v[i].d_M_in

(* C36: when several candidate tracks have the same highest score for a
   plot, the plot is associated with the one with the lowest Mahalanobis
   distance, and among those with the one with the earliest created_time;
   so no candidate tied with the associated track has a lower Mahalanobis
   distance than it *)
C36_TieByMahalanobis ==
    (gate # << >> /\ gate.decided /\ gate.associated # 0) =>
        \A j \in TiedWith(gate, gate.associated) :
            ~LowerMahalanobis(gate.verdicts, j, gate.associated)

(* what the code does: the stable sort leaves tied candidates in the order
   of active_tracks, and the first of them is taken *)
C36_TieByDictOrder ==
    (gate # << >> /\ gate.decided /\ gate.associated # 0) =>
        \A j \in TiedWith(gate, gate.associated) : gate.associated <= j

\* ======================================================================
\* Histories of one track (track_calculator.py: _associate_plot_to_track,
\* _update_course_modeling)
\* ======================================================================

\* the number of plots of the track
MaxHistoryPlots == 55

\* how often the track's speed crosses min_speed_threshold
MaxSpeedChanges == 1

\* position_history and azimuth_history keep the last 50 entries
PositionHistoryMax == 50
AzimuthHistoryMax == 50

\* seconds between consecutive plots of the track
HistoryGaps == { 0, 1 }

(* the k-th plot of the track *)
HistoryPlot(k, gap) == [ x |-> k, azimuth_deg |-> k % 360, timestamp |-> k * gap ]

(* the course of a turning track at its k-th plot,
   degrees(atan2(velocity_x, velocity_y)) % 360 *)
current_course(k) == (10 * k) % 360

(* list.append(e) followed by pop(0) when the list is longer than max *)
AppendCapped_DropNewest(history, e, max) ==
    IF Len(history) + 1 > max THEN history ELSE Append(history, e)

AppendCapped(history, e, max) ==
    IF Len(history) + 1 > max THEN Tail(Append(history, e)) ELSE Append(history, e)

angular_difference(angle1, angle2) ==
    LET diff == angle1 - angle2
    IN  IF diff > 180 THEN diff - 360
        ELSE IF diff < -180 THEN diff + 360
        ELSE diff

(* _update_course_modeling, the history and the rate: fast is
   speed_ms > min_speed_threshold *)
update_course_history(track, plot, fast) ==
    IF ~fast THEN track
    ELSE LET h == AppendCapped(track.course_history,
                               << current_course(track.plot_count), plot.timestamp >>,
                               CourseHistoryMax)
             n == Len(h)
         IN  [ track EXCEPT
                 !.course_history = h,
                 !.course_rate =
                     IF n >= 3
                     THEN LET dt1 == h[n - 1][2] - h[n - 2][2]
                              dt2 == h[n][2] - h[n - 1][2]
                          IN  IF dt1 > 0 /\ dt2 > 0
                              THEN (angular_difference(h[n - 1][1], h[n - 2][1]) \div dt1
                                    + angular_difference(h[n][1], h[n - 1][1]) \div dt2)
                                       \div 2
                              ELSE @
                     ELSE @ ]

(* the histories and the counters the two variants share *)
store_plot(track, plot) ==
    [ track EXCEPT
        !.position_history =
            AppendCapped(@, << plot.x, plot.timestamp >>, PositionHistoryMax),
        !.azimuth_history =
            AppendCapped(@, << plot.azimuth_deg, plot.timestamp >>, AzimuthHistoryMax),
        !.plot_count = @ + 1 ]

(* variant: _update_course_modeling is called once *)
associate_plot_histories_OneCall(track, plot, fast) ==
    update_course_history(store_plot(track, plot), plot, fast)

(* _associate_plot_to_track: the histories; _update_course_modeling is
   called after the kinematics and again after the quality update *)
associate_plot_histories(track, plot, fast) ==
    update_course_history(update_course_history(store_plot(track, plot), plot, fast),
                          plot, fast)

HistoryOthersUnchanged ==
    UNCHANGED << trackerVars, threadVars, decoderVars, fspecVars,
                 source_target, klv, cot, pair, s3, udp, gate >>

(* _initiate_new_track: one position, one azimuth, course_history = [],
   course_rate = 0.0 *)
InitiateHistoryTrack ==
    /\ td.track = << >>
    /\ LET plot == HistoryPlot(1, td.gap)
       IN  td' = [ td EXCEPT
               !.track = << [ position_history |-> << << plot.x, plot.timestamp >> >>,
                              azimuth_history |->
                                  << << plot.azimuth_deg, plot.timestamp >> >>,
                              course_history |-> << >>,
                              course_rate |-> 0,
                              plot_count |-> 1 ] >>,
               !.position_log = << << plot.x, plot.timestamp >> >>,
               !.azimuth_log = << << plot.azimuth_deg, plot.timestamp >> >> ]
    /\ HistoryOthersUnchanged

AssociateHistoryPlot ==
    \E fast \in BOOLEAN :
        /\ td.track # << >>
        /\ td.track[1].plot_count < MaxHistoryPlots
        /\ fast = td.fast \/ td.changes < MaxSpeedChanges
        /\ LET plot  == HistoryPlot(td.track[1].plot_count + 1, td.gap)
               entry == << current_course(plot.x), plot.timestamp >>
           IN  td' = [ td EXCEPT
                   !.track = << associate_plot_histories(td.track[1], plot, fast) >>,
                   !.fast = fast,
                   !.changes = IF fast = td.fast THEN @ ELSE @ + 1,
                   !.position_log = Append(@, << plot.x, plot.timestamp >>),
                   !.azimuth_log = Append(@, << plot.azimuth_deg, plot.timestamp >>),
                   !.course_log = IF fast THEN @ \o << entry, entry >> ELSE @ ]
        /\ HistoryOthersUnchanged

InitHistory ==
    /\ td \in [ gap : HistoryGaps, fast : BOOLEAN, changes : { 0 }, track : { << >> },
                position_log : { << >> }, azimuth_log : { << >> },
                course_log : { << >> } ]
    /\ pair = << >>
    /\ s3 = << >>
    /\ udp = << >>
    /\ gate = << >>
    /\ source_target = << >>
    /\ klv = << >>
    /\ cot = << >>
    /\ IdleTracker
    /\ IdleThreads
    /\ IdleDecoder
    /\ IdleFspec

NextHistory == InitiateHistoryTrack \/ AssociateHistoryPlot

SpecHistory == InitHistory /\ [][NextHistory]_vars

(* the last n entries of everything appended *)
MostRecent(log, n) ==
    IF Len(log) <= n THEN log ELSE SubSeq(log, Len(log) - n + 1, Len(log))

(* C37: for every track, after any sequence of associations,
   position_history and azimuth_history hold at most 50 entries and
   course_history at most 20, each keeping the most recent entries in
   insertion order *)
C37_HistoriesCapped ==
    (td # << >> /\ td.track # << >>) =>
        /\ Len(td.track[1].position_history) <= 50
        /\ Len(td.track[1].azimuth_history) <= 50
        /\ Len(td.track[1].course_history) <= 20
        /\ td.track[1].position_history = MostRecent(td.position_log, 50)
        /\ td.track[1].azimuth_history = MostRecent(td.azimuth_log, 50)
        /\ td.track[1].course_history = MostRecent(td.course_log, 20)

(* all three histories have dropped entries *)
C37_Witness ==
    /\ td # << >>
    /\ td.track # << >>
    /\ Len(td.position_log) > 50
    /\ Len(td.azimuth_log) > 50
    /\ Len(td.course_log) > 20
    /\ td.track[1].position_history[1] # td.position_log[1]

(* C40: each association made while speed_ms exceeds min_speed_threshold
   appends the same (course, timestamp) entry to course_history twice, so the
   three most recent entries never have strictly increasing timestamps and
   course_rate stays 0.0 *)
C40_CourseRateStaysZero ==
    (td # << >> /\ td.track # << >>) =>
        LET h == td.track[1].course_history
            n == Len(h)
        IN  /\ n >= 2 => h[n] = h[n - 1]
            /\ n >= 3 => ~(h[n - 2][2] < h[n - 1][2] /\ h[n - 1][2] < h[n][2])
            /\ td.track[1].course_rate = 0

(* three or more fast associations of plots one second apart, on a turning
   track, past the cap of the history *)
C40_Witness ==
    /\ td # << >>
    /\ td.track # << >>
    /\ td.gap = 1
    /\ td.fast
    /\ Len(td.course_log) > 20
    /\ LET h == td.track[1].course_history
       IN  h[Len(h)][2] > h[Len(h) - 2][2] /\ h[Len(h)][1] # h[Len(h) - 2][1]

\* ======================================================================
\* The hae attribute of an emitted event
\* ======================================================================

(* the track's altitude is unknown: key absent or value None *)
AltitudeUnknown(track) == ~track.altitude.has \/ track.altitude.none

Emitted == cot # << >> /\ cot.track # << >> /\ cot.doc # << >> /\ cot.doc[1].xml

(* C39: the hae attribute of the point element is 0 whenever the track's
   altitude is unknown (key absent or value None), so that the emitted event
   can always be parsed back *)
C39_HaeZeroWhenUnknown ==
    (Emitted /\ AltitudeUnknown(cot.track[1])) =>
        /\ cot.doc[1].point[1].hae = << Text(0) >>
        /\ cot.parsed # << >> => Len(cot.parsed[1]) = 1

(* what the converter does: hae is 0 when the key is absent, and the text of
   the value, "None" included, when the key is present *)
C39_HaeZeroWhenAbsent ==
    Emitted =>
        cot.doc[1].point[1].hae =
            << IF cot.track[1].altitude.has THEN Str(cot.track[1].altitude)
               ELSE Text(0) >>
====
